---- MODULE Spec2Model ----
(***************************************************************************)
(* Storage layer of serviced: the NFS export synchronizer                  *)
(* (dfs/nfs/server.go) and the volume driver registry, path resolver and   *)
(* backend detection (volume package).                                     *)
(*                                                                         *)
(* Byte strings are modelled as sequences of tokens.  A token stands for   *)
(* a fixed byte string: "\n", " " and "\t" are the one-byte separators,    *)
(* every other token is a word that holds no separator byte the code       *)
(* looks for inside it.  Paths are modelled as the sequence of their       *)
(* "/"-separated pieces: "/a/b" is <<"", "a", "b">>, "/" is <<"", "">>,    *)
(* "a/" is <<"a", "">> and the empty string is <<"">>.  Joining two path   *)
(* strings with a "/" between them is then sequence concatenation.         *)
(***************************************************************************)
EXTENDS Naturals, Integers, Sequences, FiniteSets, TLC

----------------------------------------------------------------------------
(* Generic sequence helpers                                                *)

Range(s) == { s[i] : i \in DOMAIN s }

Front(s) == SubSeq(s, 1, Len(s) - 1)

Last(s) == s[Len(s)]

RECURSIVE Flatten(_)
Flatten(ss) == IF ss = <<>> THEN <<>> ELSE Head(ss) \o Flatten(Tail(ss))

\* All orders in which the elements of a finite set can be enumerated.
Orders(S) ==
    { f \in [1..Cardinality(S) -> S] : \A i, j \in DOMAIN f : i # j => f[i] # f[j] }

\* strings.Index on token sequences, 0-based; -1 when sub does not occur.
Index(s, sub) ==
    LET n    == Len(sub)
        hits == { i \in 0..(Len(s) - n) : SubSeq(s, i + 1, i + n) = sub }
    IN  IF hits = {} THEN -1
        ELSE CHOOSE i \in hits : \A j \in hits : i <= j

\* strings.Contains
Contains(s, sub) == Index(s, sub) >= 0

\* Go's s[:n] and s[n:]
Prefix(s, n) == SubSeq(s, 1, n)

Suffix(s, n) == SubSeq(s, n + 1, Len(s))

----------------------------------------------------------------------------
(* path / filepath                                                         *)

\* path.IsAbs: the string starts with "/"
IsAbs(p) == Len(p) >= 2 /\ p[1] = ""

\* The lexical processing loop of path.Clean over the pieces of a path.
RECURSIVE CleanLoop(_, _, _)
CleanLoop(rooted, rest, out) ==
    IF rest = <<>> THEN out
    ELSE LET seg == Head(rest) IN
         IF seg = "" \/ seg = "." THEN CleanLoop(rooted, Tail(rest), out)
         ELSE IF seg = ".."
              THEN IF out # <<>> /\ Last(out) # ".."
                   THEN CleanLoop(rooted, Tail(rest), Front(out))
                   ELSE IF rooted
                        THEN CleanLoop(rooted, Tail(rest), out)
                        ELSE CleanLoop(rooted, Tail(rest), Append(out, ".."))
              ELSE CleanLoop(rooted, Tail(rest), Append(out, seg))

\* path.Clean / filepath.Clean
Clean(p) ==
    IF p = <<"">> THEN <<".">>
    ELSE LET rooted == IsAbs(p)
             out    == CleanLoop(rooted, IF rooted THEN Tail(p) ELSE p, <<>>)
         IN  IF rooted
             THEN IF out = <<>> THEN <<"", "">> ELSE <<"">> \o out
             ELSE IF out = <<>> THEN <<".">> ELSE out

\* path.Join(a, b): empty elements are dropped, the rest joined with "/" and cleaned.
Join(a, b) ==
    IF a = <<"">> /\ b = <<"">> THEN <<"">>
    ELSE IF a = <<"">> THEN Clean(b)
    ELSE IF b = <<"">> THEN Clean(a)
    ELSE Clean(a \o b)

\* filepath.Dir: everything up to the last "/", cleaned.
Dir(p) ==
    IF Len(p) = 1 THEN <<".">>
    ELSE Clean(Append(Front(p), ""))

\* path.Split(p): the part after the final "/" (the file component).
Base(p) == Last(p)

\* The pieces of a cleaned path below its root ("/" or the working directory).
Elems(c) ==
    IF IsAbs(c) THEN (IF c = <<"", "">> THEN <<>> ELSE Tail(c))
    ELSE IF c = <<".">> THEN <<>> ELSE c

RECURSIVE CommonLen(_, _)
CommonLen(a, b) ==
    IF a = <<>> \/ b = <<>> \/ Head(a) # Head(b) THEN 0
    ELSE 1 + CommonLen(Tail(a), Tail(b))

\* filepath.Rel(base, targ): [err, path]
Rel(basepath, targpath) ==
    LET base == Clean(basepath)
        targ == Clean(targpath)
        be   == Elems(base)
        te   == Elems(targ)
        k    == CommonLen(be, te)
        ups  == [i \in 1..(Len(be) - k) |-> ".."]
        rest == SubSeq(te, k + 1, Len(te))
    IN  IF targ = base THEN [err |-> "nil", path |-> <<".">>]
        ELSE IF IsAbs(base) # IsAbs(targ)
             THEN [err |-> "Rel", path |-> <<"">>]
        ELSE IF \E i \in (k + 1)..Len(be) : be[i] = ".."
             THEN [err |-> "Rel", path |-> <<"">>]
        ELSE [err |-> "nil", path |-> ups \o rest]

----------------------------------------------------------------------------
(* dfs/nfs/server.go: constants and text helpers                           *)

NL == "\n"

SP == " "

TAB == "\t"

Whitespace == {SP, TAB}

hostDenyMarker == "# serviced, do not remove past this line"

hostDenyDefaults ==
    <<NL, hostDenyMarker, NL, "rpcbind mountd nfsd statd lockd rquotad : ALL", NL, NL>>

hostAllowMarker == "# serviced, do not remove past this line"

hostAllowDefaults ==
    <<NL, hostAllowMarker, NL, "rpcbind mountd nfsd statd lockd rquotad : 127.0.0.1">>

etcExportsStartMarker ==
    <<NL, "# --- SERVICED EXPORTS BEGIN ---", NL, "# --- Do not edit this section", NL>>

etcExportsEndMarker == <<NL, "# --- SERVICED EXPORTS END ---", NL>>

etcExportsRemoveComment == <<"# serviced removed:", SP>>

\* The option list written after the network in every export line.
exportLineOptions == "(rw,no_root_squash,insecure,no_subtree_check,async)"

\* The tokens whose first byte is '#'.
HashTokens ==
    { "#", hostDenyMarker, "# serviced removed:",
      "# --- SERVICED EXPORTS BEGIN ---", "# --- Do not edit this section",
      "# --- SERVICED EXPORTS END ---" }

\* Root of the export tree (package variable of the nfs package).
exportsDir == <<"", "exports">>

\* The byte string of a path, as tokens: its pieces with "/" between them.
RECURSIVE PathTokens(_)
PathTokens(p) ==
    IF Len(p) = 1 THEN (IF p[1] = "" THEN <<>> ELSE <<p[1]>>)
    ELSE (IF p[1] = "" THEN <<>> ELSE <<p[1]>>) \o <<"/">> \o PathTokens(Tail(p))

\* bufio.Scanner with ScanLines: the lines of s without their terminators;
\* a final line without terminator is yielded, an empty final one is not.
RECURSIVE ScanLines(_)
ScanLines(s) ==
    IF s = <<>> THEN <<>>
    ELSE LET i == Index(s, <<NL>>) IN
         IF i < 0 THEN <<s>>
         ELSE <<Prefix(s, i)>> \o ScanLines(Suffix(s, i + 1))

RECURSIVE TrimLeft(_)
TrimLeft(l) == IF l # <<>> /\ Head(l) \in Whitespace THEN TrimLeft(Tail(l)) ELSE l

RECURSIVE TrimRight(_)
TrimRight(l) == IF l # <<>> /\ Last(l) \in Whitespace THEN TrimRight(Front(l)) ELSE l

\* strings.TrimSpace on one line
TrimSpace(l) == TrimRight(TrimLeft(l))

\* strings.Fields: the maximal runs of non-whitespace bytes.
RECURSIVE FieldsLoop(_, _, _)
FieldsLoop(l, cur, acc) ==
    IF l = <<>> THEN (IF cur = <<>> THEN acc ELSE Append(acc, cur))
    ELSE IF Head(l) \in Whitespace
         THEN FieldsLoop(Tail(l), <<>>, IF cur = <<>> THEN acc ELSE Append(acc, cur))
         ELSE FieldsLoop(Tail(l), Append(cur, Head(l)), acc)

Fields(l) == FieldsLoop(l, <<>>, <<>>)

\* strings.HasPrefix(line, "#")
HasHashPrefix(l) == l # <<>> /\ Head(l) \in HashTokens

\* sort.Strings over the client addresses: a fixed total order of the
\* addresses the model uses, lexicographic on their text.
ClientOrder == <<"10.0.0.1", "10.0.0.2", "10.0.0.3", "10.0.0.4">>

ClientRank(c) == CHOOSE i \in DOMAIN ClientOrder : ClientOrder[i] = c

SortStrings(S) ==
    CHOOSE f \in Orders(S) : \A i, j \in DOMAIN f : i < j => ClientRank(f[i]) < ClientRank(f[j])

\* strings.Join(hosts, " ")
RECURSIVE JoinSp(_)
JoinSp(hs) ==
    IF hs = <<>> THEN <<>>
    ELSE IF Len(hs) = 1 THEN <<hs[1]>>
    ELSE <<hs[1], SP>> \o JoinSp(Tail(hs))

----------------------------------------------------------------------------
(* dfs/nfs/server.go: the steps of a reconciliation cycle as functions     *)

\* Name of the directory under exportsDir that holds the exported volumes
\* (the exportedName given to NewServer).
exportedName == <<"shares">>

\* edir := path.Join(exportsDir, c.exportedName)
ExportPath == Join(exportsDir, exportedName)

\* No mount at a mountpoint / no source.
NoMount == <<>>

\* Server.hostsDeny: the content written to the access-deny file;
\* the content is left alone when the defaults are already in it.
hostsDeny(s) ==
    IF Contains(s, hostDenyDefaults) THEN s
    ELSE LET index == Index(s, <<hostDenyMarker>>)
             kept  == IF index > 0 THEN Prefix(s, index - 1) ELSE s
         IN  kept \o hostDenyDefaults

\* Server.hostsAllow: the content written to the access-allow file.
hostsAllow(s, cl) ==
    LET index == Index(s, <<hostAllowMarker>>)
        kept  == IF index > 0 THEN Prefix(s, index - 1) ELSE s
        hosts == SortStrings(cl)
    IN  kept \o hostAllowDefaults \o <<SP>> \o JoinSp(hosts) \o <<NL, NL>>

\* A rendering that writes the network as it was given.
ExportNetworkAsGiven(net) == net

\* network := c.network; "0.0.0.0/0" becomes the 'allow all hosts' token
ExportNetwork(net) == IF net = "0.0.0.0/0" THEN "*" ELSE net

\* volume = path.Clean(volume); _, volName := path.Split(volume)
VolName(volume) == Base(Clean(volume))

\* exported := path.Join(edir, volName)
Exported(volume) == Join(ExportPath, <<VolName(volume)>>)

\* One line of serviced_exports.
ExportLine(volume, net) ==
    PathTokens(Exported(volume)) \o <<TAB, ExportNetwork(net), exportLineOptions, NL>>

\* The mountpoints whose lines outside the managed section are commented out.
mountpaths == { PathTokens(exportsDir), PathTokens(ExportPath) }

\* A scanner loop that prefixes every line whose first field is a managed
\* mount directory, comments too.
FilterLineAgain(raw) ==
    LET line   == TrimSpace(raw)
        fields == Fields(line)
        inner  == IF HasHashPrefix(line) /\ fields # <<>> THEN Tail(fields) ELSE fields
    IN  IF inner # <<>> /\ inner[1] \in mountpaths
        THEN etcExportsRemoveComment \o line \o <<NL>>
        ELSE line \o <<NL>>

\* One pass of the scanner loop of writeExports over a line of the old file.
FilterLine(raw) ==
    LET line == TrimSpace(raw) IN
    IF ~HasHashPrefix(line) /\ Fields(line) # <<>> /\ Fields(line)[1] \in mountpaths
    THEN etcExportsRemoveComment \o line \o <<NL>>
    ELSE line \o <<NL>>

RECURSIVE FilterLines(_)
FilterLines(ls) == IF ls = <<>> THEN <<>> ELSE FilterLine(Head(ls)) \o FilterLines(Tail(ls))

\* filteredContent of writeExports
FilteredContent(originalContents) == FilterLines(ScanLines(originalContents))

\* A writeExports that appends a new managed section and keeps the old one.
ExportsFileContentsAppending(originalContents, serviced_exports) ==
    FilteredContent(originalContents)
        \o etcExportsStartMarker \o serviced_exports \o etcExportsEndMarker

\* fileContents of writeExports, from the old file and serviced_exports.
ExportsFileContents(originalContents, serviced_exports) ==
    LET filteredContent == FilteredContent(originalContents)
        index     == Index(filteredContent, etcExportsStartMarker)
        preamble  == IF index >= 0 THEN Prefix(filteredContent, index) ELSE filteredContent
        remainder == IF index >= 0 THEN Suffix(filteredContent, index) ELSE <<>>
        eindex    == Index(remainder, etcExportsEndMarker)
        postamble == IF index >= 0 /\ eindex >= 0
                     THEN Suffix(remainder, eindex + Len(etcExportsEndMarker))
                     ELSE <<>>
    IN  preamble \o etcExportsStartMarker \o serviced_exports \o etcExportsEndMarker \o postamble

\* What the external world can answer to one bindMount call: the read of the
\* mount table, the creation of the mountpoint, and the exit status of the
\* first and of the second run of the mount command.
MountOutcomes ==
    { [probe |-> "err", mkdir |-> "ok",  exit1 |-> 0,  exit2 |-> 0],
      [probe |-> "ok",  mkdir |-> "err", exit1 |-> 0,  exit2 |-> 0],
      [probe |-> "ok",  mkdir |-> "ok",  exit1 |-> 0,  exit2 |-> 0],
      [probe |-> "ok",  mkdir |-> "ok",  exit1 |-> 1,  exit2 |-> 0],
      [probe |-> "ok",  mkdir |-> "ok",  exit1 |-> 32, exit2 |-> 0],
      [probe |-> "ok",  mkdir |-> "ok",  exit1 |-> 32, exit2 |-> 32] }

\* utils.GetExitStatus: ok only for an error that carries an exit status; a
\* command that could not be run is written as the status -1.
GetExitStatusOk(exitcode) == exitcode >= 0

\* fmt.Errorf("%s: %s", out, returnErr): the output of the run named and its
\* error; an error of the probe or of MkdirAll is returned as it is.
Msg(out, e) == [out |-> out, err |-> e]

NoMsg == Msg("", "nil")

\* A test of the exit status for the value 32 instead of the bit 32.
StaleHandleExactly32(exitcode) == exitcode = 32

\* (exitcode & 32) != 0
StaleHandle(exitcode) == (exitcode \div 32) % 2 = 1

\* A bindMount that mounts without asking whether the destination is mounted.
bindMountImpOverMounted(src, name, mnt, ent, o) ==
    LET same == [err |-> "nil", msg |-> NoMsg, cmds |-> <<>>, mnt |-> mnt, ent |-> ent]
        made == [ent EXCEPT ![name] = "dir"]
        once == << <<"bind">> >>
    IN  IF o.probe = "err" THEN [same EXCEPT !.err = "err", !.msg = Msg("", "probe")]
        ELSE IF o.mkdir = "err" \/ ent[name] = "file"
             THEN [same EXCEPT !.err = "err", !.msg = Msg("", "mkdir")]
        ELSE IF o.exit1 = 0
             THEN [same EXCEPT !.cmds = once, !.mnt = [mnt EXCEPT ![name] = src], !.ent = made]
        ELSE [same EXCEPT !.err = "err", !.msg = Msg("out1", o.exit1), !.cmds = once,
                          !.ent = made]

\* bindMountImp(src, dst) for dst = edir/name, in the world (mnt, ent):
\* the error returned, the mount commands run (their -o options), and the
\* mount table and directory entries afterwards.
bindMountImp(src, name, mnt, ent, o) ==
    LET same == [err |-> "nil", msg |-> NoMsg, cmds |-> <<>>, mnt |-> mnt, ent |-> ent]
        made == [ent EXCEPT ![name] = "dir"]
        once == << <<"bind">> >>
        both == << <<"bind">>, <<"bind", "remount">> >>
    IN  IF o.probe = "err" THEN [same EXCEPT !.err = "err", !.msg = Msg("", "probe")]
        ELSE IF mnt[name] # NoMount THEN same
        ELSE IF o.mkdir = "err" \/ ent[name] = "file"
             THEN [same EXCEPT !.err = "err", !.msg = Msg("", "mkdir")]
        ELSE IF o.exit1 = 0
             THEN [same EXCEPT !.cmds = once, !.mnt = [mnt EXCEPT ![name] = src], !.ent = made]
        ELSE IF GetExitStatusOk(o.exit1) /\ StaleHandle(o.exit1)
             THEN IF o.exit2 = 0
                  THEN [same EXCEPT !.cmds = both, !.mnt = [mnt EXCEPT ![name] = src],
                                    !.ent = made]
                  ELSE [same EXCEPT !.err = "err", !.msg = Msg("out2", o.exit2),
                                    !.cmds = both, !.ent = made]
        ELSE [same EXCEPT !.err = "err", !.msg = Msg("out1", o.exit1), !.cmds = once,
                          !.ent = made]

\* The loop of writeExports over c.volumes in the iteration order ord, with
\* the outcome oc[v] of the bindMount of each volume: stops at the first
\* failing bindMount.  acc carries exports, serviced_exports, the mount
\* commands run and the world.
RECURSIVE ExportLoop(_, _, _, _)
ExportLoop(ord, oc, net, acc) ==
    IF ord = <<>> THEN acc
    ELSE LET volume == Clean(Head(ord))
             r      == bindMountImp(volume, VolName(volume), acc.mnt, acc.ent, oc[Head(ord)])
         IN  IF r.err # "nil"
             THEN [acc EXCEPT !.err = "err", !.cmds = acc.cmds \o r.cmds,
                              !.mnt = r.mnt, !.ent = r.ent]
             ELSE ExportLoop(Tail(ord), oc, net,
                     [err     |-> "nil",
                      exports |-> acc.exports \cup {VolName(volume)},
                      lines   |-> acc.lines \o ExportLine(volume, net),
                      cmds    |-> acc.cmds \o r.cmds,
                      mnt     |-> r.mnt,
                      ent     |-> r.ent])

\* What the external world can answer for one stale directory in cleanupBindMounts.
CleanupOutcomes == {"ok", "probeErr", "umountErr", "removeErr"}

\* A cleanup that acts on every entry that is not exported, files included.
StaleAnyEntry(exp, ent) == { n \in DOMAIN ent : n \notin exp /\ ent[n] # "none" }

\* The directories cleanupBindMounts acts on: not exported, and a directory.
Stale(exp, ent) == { n \in DOMAIN ent : n \notin exp /\ ent[n] = "dir" }

\* Whether cleanupBindMounts unmounts / removes directory n under outcome o.
Unmounts(n, mnt, o) == mnt[n] # NoMount /\ o \notin {"probeErr", "umountErr"}

\* A cleanup that removes the directory although its unmount failed.
RemovesStillMounted(n, mnt, o) == o # "probeErr" /\ o # "removeErr"

Removes(n, mnt, o) ==
    /\ o # "probeErr"
    /\ (mnt[n] # NoMount => o # "umountErr")
    /\ o # "removeErr"

\* Server.cleanupBindMounts: the mount table and the entries of edir afterwards;
\* readdir tells whether the directory could be listed.
cleanupBindMounts(exp, mnt, ent, readdir, oc) ==
    IF readdir = "err" THEN [mnt |-> mnt, ent |-> ent]
    ELSE [mnt |-> [n \in DOMAIN mnt |->
                     IF n \in Stale(exp, ent) /\ Unmounts(n, mnt, oc[n]) THEN NoMount ELSE mnt[n]],
          ent |-> [n \in DOMAIN ent |->
                     IF n \in Stale(exp, ent) /\ Removes(n, mnt, oc[n]) THEN "none" ELSE ent[n]]]

----------------------------------------------------------------------------
(* volume package: driver types, errors, detection, path resolution        *)

DRIVER_BTRFS == "btrfs"

DRIVER_RSYNC == "rsync"

DRIVER_DEVICEMAPPER == "devicemapper"

DriverTypes == {DRIVER_BTRFS, DRIVER_RSYNC, DRIVER_DEVICEMAPPER}

\* The zero DriverType, the zero Driver and the zero path of a result.
NoType == ""

NoDriver == [type |-> NoType, root |-> <<>>, by |-> ""]

NoPath == <<>>

\* fmt.Sprintf(".%s", drivertype): the name of a marker directory.
MarkerDir(drivertype) == <<".", drivertype>>

\* A listing filter that counts the entry named "monitor" as well.
EveryName(fis) == [i \in DOMAIN fis |-> fis[i].name]

\* The entries of a directory listing that are not named "monitor".
RECURSIVE NotMonitor(_)
NotMonitor(fis) ==
    IF fis = <<>> THEN <<>>
    ELSE IF Head(fis).name # <<"monitor">>
         THEN <<Head(fis).name>> \o NotMonitor(Tail(fis))
         ELSE NotMonitor(Tail(fis))

\* fi != nil && fi.IsDir() for the entry called name of the directory d
IsDirIn(d, name) == \E i \in DOMAIN d.entries : d.entries[i] = [name |-> name, dir |-> TRUE]

\* The first of the driver types tried in order whose marker directory exists.
RECURSIVE FirstMarker(_, _)
FirstMarker(d, types) ==
    IF types = <<>> THEN [t |-> NoType, err |-> "ErrDriverNotInit", cmds |-> <<>>]
    ELSE IF IsDirIn(d, MarkerDir(Head(types)))
         THEN [t |-> Head(types), err |-> "nil", cmds |-> <<>>]
         ELSE FirstMarker(d, Tail(types))

\* DetectDriverType of detect.go on a root directory in the state d.
DetectDriverType(d) ==
    IF d.stat = "missing" THEN [t |-> NoType, err |-> "ErrDriverNotInit", cmds |-> <<>>]
    ELSE IF d.stat = "err" THEN [t |-> NoType, err |-> "ErrStat", cmds |-> <<>>]
    ELSE FirstMarker(d, <<DRIVER_BTRFS, DRIVER_RSYNC, DRIVER_DEVICEMAPPER>>)

\* The names of the entries of a directory listing that are directories and
\* are not named "monitor".
RECURSIVE DirsNotMonitor(_)
DirsNotMonitor(fis) ==
    IF fis = <<>> THEN <<>>
    ELSE IF Head(fis).dir /\ Head(fis).name # <<"monitor">>
         THEN <<Head(fis).name>> \o DirsNotMonitor(Tail(fis))
         ELSE DirsNotMonitor(Tail(fis))

\* An OldDetectDriverType that takes a root it may not probe for rsync.
OldDetectDriverTypeGuessing(d) ==
    LET r == [d EXCEPT !.who = IF @ = "user" THEN "root" ELSE @]
        names == DirsNotMonitor(r.entries)
    IN
    IF r.stat = "missing" THEN [t |-> NoType, err |-> "ErrDriverNotInit", cmds |-> <<>>]
    ELSE IF r.stat = "err" THEN [t |-> NoType, err |-> "ErrStat", cmds |-> <<>>]
    ELSE IF IsDirIn(r, MarkerDir(DRIVER_DEVICEMAPPER))
         THEN [t |-> DRIVER_DEVICEMAPPER, err |-> "nil", cmds |-> <<>>]
    ELSE IF r.readdir = "err" THEN [t |-> NoType, err |-> "ErrReadDir", cmds |-> <<>>]
    ELSE IF names = <<>> THEN [t |-> NoType, err |-> "ErrDriverNotInit", cmds |-> <<>>]
    ELSE IF r.magic = "btrfs" /\ d.who \in {"root", "sudoer"} /\ names[1] \in r.subvols
         THEN [t |-> DRIVER_BTRFS, err |-> "nil", cmds |-> <<"btrfs subvolume show">>]
    ELSE [t |-> DRIVER_RSYNC, err |-> "nil", cmds |-> <<>>]

\* OldDetectDriverType of detect.go on a root directory in the state d.
\* IsBtrfsFilesystem, IsRoot, IsSudoer and RunBtrFSCmd answer from d.magic,
\* d.who and d.subvols.
OldDetectDriverType(d) ==
    LET names == DirsNotMonitor(d.entries)
        probe == <<"btrfs subvolume show">>
    IN
    IF d.stat = "missing" THEN [t |-> NoType, err |-> "ErrDriverNotInit", cmds |-> <<>>]
    ELSE IF d.stat = "err" THEN [t |-> NoType, err |-> "ErrStat", cmds |-> <<>>]
    ELSE IF IsDirIn(d, MarkerDir(DRIVER_DEVICEMAPPER))
         THEN [t |-> DRIVER_DEVICEMAPPER, err |-> "nil", cmds |-> <<>>]
    ELSE IF d.readdir = "err" THEN [t |-> NoType, err |-> "ErrReadDir", cmds |-> <<>>]
    ELSE IF names = <<>> THEN [t |-> NoType, err |-> "ErrDriverNotInit", cmds |-> <<>>]
    ELSE IF d.magic = "btrfs" /\ d.who \notin {"root", "sudoer"}
         THEN [t |-> NoType, err |-> "ErrInsufficientPermissions", cmds |-> <<>>]
    ELSE IF d.magic = "btrfs" /\ names[1] \in d.subvols
         THEN [t |-> DRIVER_BTRFS, err |-> "nil", cmds |-> probe]
    ELSE [t |-> DRIVER_RSYNC, err |-> "nil",
          cmds |-> IF d.magic = "btrfs" THEN probe ELSE <<>>]

\* os.IsExist(err) for the error of an os.Stat: Stat never fails with
\* "already exists", so the test is false whatever the directory holds.
StatErrIsExist(d, name) == FALSE

\* DetectDriverType of volume.go on a root directory in the state d.
VolumeDetectDriverType(d) ==
    LET names == NotMonitor(d.entries)
        sudo  == IF d.who = "root" THEN <<>> ELSE <<"sudo -n btrfs help">>
        probe == <<"btrfs subvolume show">>
    IN
    IF d.stat = "missing" THEN [t |-> NoType, err |-> "ErrDriverNotInit", cmds |-> <<>>]
    ELSE IF StatErrIsExist(d, MarkerDir(DRIVER_DEVICEMAPPER))
         THEN [t |-> DRIVER_DEVICEMAPPER, err |-> "nil", cmds |-> <<>>]
    ELSE IF d.readdir = "err" THEN [t |-> NoType, err |-> "ErrReadDir", cmds |-> <<>>]
    ELSE IF names = <<>> THEN [t |-> NoType, err |-> "ErrDriverNotInit", cmds |-> <<>>]
    ELSE IF d.magic = "err" THEN [t |-> NoType, err |-> "ErrFSMagic", cmds |-> <<>>]
    ELSE IF d.magic = "btrfs" /\ d.who = "err"
         THEN [t |-> NoType, err |-> "ErrUser", cmds |-> <<>>]
    ELSE IF d.magic = "btrfs" /\ d.who = "user"
         THEN [t |-> NoType, err |-> "ErrInsufficientPermissions", cmds |-> sudo]
    ELSE IF d.magic = "btrfs" /\ names[1] \in d.subvols
         THEN [t |-> DRIVER_BTRFS, err |-> "nil", cmds |-> sudo \o probe]
    ELSE [t |-> DRIVER_RSYNC, err |-> "nil",
          cmds |-> IF d.magic = "btrfs" THEN sudo \o probe ELSE <<>>]

\* The detection the build links InitDriver against.
Detect(which, d) ==
    IF which = "detect.go" THEN DetectDriverType(d) ELSE VolumeDetectDriverType(d)

\* A SplitPath loop that names the volume by the last piece of the path.
RECURSIVE SplitLoopBaseName(_, _, _)
SplitLoopBaseName(rootDir, volumePath, byRoot) ==
    LET up == Dir(rootDir) IN
    IF up \notin DOMAIN byRoot
    THEN IF up = <<"", "">>
         THEN [rootDir |-> <<"">>, volumeName |-> <<"">>, err |-> "ErrDriverNotInit"]
         ELSE SplitLoopBaseName(up, volumePath, byRoot)
    ELSE [rootDir |-> up, volumeName |-> <<Last(Clean(volumePath))>>, err |-> "nil"]

\* A SplitPath loop that returns the bound root nearest to "/" instead of the
\* one nearest to the path.
RECURSIVE SplitLoopShallowest(_, _, _)
SplitLoopShallowest(rootDir, volumePath, byRoot) ==
    LET up     == Dir(rootDir)
        none   == [rootDir |-> <<"">>, volumeName |-> <<"">>, err |-> "ErrDriverNotInit"]
        here   == IF up \in DOMAIN byRoot
                  THEN [rootDir |-> up, volumeName |-> Rel(up, volumePath).path, err |-> "nil"]
                  ELSE none
        higher == IF up = <<"", "">> THEN none
                  ELSE SplitLoopShallowest(up, volumePath, byRoot)
    IN  IF higher.err = "nil" THEN higher ELSE here

\* The loop of SplitPath: the nearest proper ancestor of rootDir that is a
\* driver root, "/" included.
RECURSIVE SplitLoop(_, _, _)
SplitLoop(rootDir, volumePath, byRoot) ==
    LET up == Dir(rootDir) IN
    IF up \notin DOMAIN byRoot
    THEN IF up = <<"", "">>
         THEN [rootDir |-> <<"">>, volumeName |-> <<"">>, err |-> "ErrDriverNotInit"]
         ELSE SplitLoop(up, volumePath, byRoot)
    ELSE LET rel == Rel(up, volumePath) IN
         IF rel.err # "nil"
         THEN [rootDir |-> <<"">>, volumeName |-> <<"">>, err |-> rel.err]
         ELSE [rootDir |-> up, volumeName |-> rel.path, err |-> "nil"]

\* SplitPath
SplitPath(volumePath, byRoot) ==
    LET rootDir == Clean(volumePath) IN
    IF ~IsAbs(rootDir)
    THEN [rootDir |-> <<"">>, volumeName |-> <<"">>, err |-> "ErrPathIsNotAbs"]
    ELSE IF rootDir \in DOMAIN byRoot
         THEN [rootDir |-> volumePath, volumeName |-> <<"">>, err |-> "nil"]
         ELSE SplitLoop(rootDir, volumePath, byRoot)

\* One call of a driver method, as seen from the registry.
Call(fn, root, arg) == [fn |-> fn, on |-> root, arg |-> arg]

\* A Mount that creates the volume whether it exists or not.
MountAlwaysCreating(volumeName, rootDir, byRoot, exists, ok) ==
    LET sp     == SplitPath(Join(rootDir, volumeName), byRoot)
        root   == Clean(rootDir)
        probe  == <<Call("Exists", root, volumeName)>>
        load   == <<Call("Create", root, volumeName)>>
    IN  IF sp.err # "nil" THEN [err |-> sp.err, vol |-> NoPath, calls |-> <<>>]
        ELSE IF sp.rootDir # rootDir THEN [err |-> "ErrBadMount", vol |-> NoPath, calls |-> <<>>]
        ELSE IF sp.volumeName = <<"">>
             THEN [err |-> "ErrPathIsDriver", vol |-> NoPath, calls |-> <<>>]
        ELSE IF root \notin DOMAIN byRoot
             THEN [err |-> "ErrDriverNotInit", vol |-> NoPath, calls |-> <<>>]
        ELSE IF ~ok THEN [err |-> "ErrDriver", vol |-> NoPath, calls |-> probe \o load]
        ELSE [err |-> "nil", vol |-> volumeName, calls |-> probe \o load]

\* Mount: the error, the volume, and the driver calls made, when the driver
\* answers exists to Exists and succeeds in Get or Create iff ok.
Mount(volumeName, rootDir, byRoot, exists, ok) ==
    LET sp     == SplitPath(Join(rootDir, volumeName), byRoot)
        root   == Clean(rootDir)
        probe  == <<Call("Exists", root, volumeName)>>
        load   == <<Call(IF exists THEN "Get" ELSE "Create", root, volumeName)>>
    IN  IF sp.err # "nil" THEN [err |-> sp.err, vol |-> NoPath, calls |-> <<>>]
        ELSE IF sp.rootDir # rootDir THEN [err |-> "ErrBadMount", vol |-> NoPath, calls |-> <<>>]
        ELSE IF sp.volumeName = <<"">>
             THEN [err |-> "ErrPathIsDriver", vol |-> NoPath, calls |-> <<>>]
        ELSE IF root \notin DOMAIN byRoot
             THEN [err |-> "ErrDriverNotInit", vol |-> NoPath, calls |-> <<>>]
        ELSE IF ~ok THEN [err |-> "ErrDriver", vol |-> NoPath, calls |-> probe \o load]
        ELSE [err |-> "nil", vol |-> volumeName, calls |-> probe \o load]

\* A FindMount that compares the root returned with the cleaned path.
FindMountComparingCleaned(volumePath, byRoot, exists, ok) ==
    LET sp == SplitPath(volumePath, byRoot) IN
    IF sp.err # "nil" THEN [err |-> sp.err, vol |-> NoPath, calls |-> <<>>]
    ELSE IF sp.rootDir = Clean(volumePath)
         THEN [err |-> "ErrPathIsDriver", vol |-> NoPath, calls |-> <<>>]
         ELSE Mount(sp.volumeName, sp.rootDir, byRoot, exists, ok)

\* FindMount
FindMount(volumePath, byRoot, exists, ok) ==
    LET sp == SplitPath(volumePath, byRoot) IN
    IF sp.err # "nil" THEN [err |-> sp.err, vol |-> NoPath, calls |-> <<>>]
    ELSE IF sp.rootDir = volumePath
         THEN [err |-> "ErrPathIsDriver", vol |-> NoPath, calls |-> <<>>]
         ELSE Mount(sp.volumeName, sp.rootDir, byRoot, exists, ok)

\* The state of a directory nobody created.
Missing ==
    [ stat |-> "missing", entries |-> <<>>, readdir |-> "err", magic |-> "other",
      who |-> "root", subvols |-> {} ]

\* The state of the directory p on the disk dk.
DirState(dk, p) == IF p \in DOMAIN dk THEN dk[p] ELSE Missing

\* An InitDriver that does not look the root up before it detects and builds.
InitDriverRebinding(name, root, regs, byRoot, dk, which, ctorOk) ==
    LET croot  == Clean(root)
        det    == Detect(which, DirState(dk, croot))
        detect == <<Call("DetectDriverType", croot, <<>>)>>
        init   == <<Call("init", croot, <<>>)>>
        driver == [type |-> name, root |-> croot, by |-> regs[name]]
        same   == [err |-> "nil", byRoot |-> byRoot, calls |-> <<>>, exited |-> FALSE]
    IN  IF name \notin DOMAIN regs THEN [same EXCEPT !.err = "ErrDriverNotSupported"]
        ELSE IF ~IsAbs(croot) THEN [same EXCEPT !.err = "ErrPathIsNotAbs"]
        ELSE IF det.err # "nil" /\ det.err # "ErrDriverNotInit"
             THEN [same EXCEPT !.err = det.err, !.calls = detect]
        ELSE IF det.t # name
             THEN [same EXCEPT !.err = "fatal", !.calls = detect, !.exited = TRUE]
        ELSE IF ~ctorOk
             THEN [same EXCEPT !.err = "ErrInit", !.calls = detect \o init]
        ELSE [same EXCEPT !.byRoot = (croot :> driver) @@ byRoot, !.calls = detect \o init]

\* An InitDriver that ends the process when the root holds a driver of
\* another type.
InitDriverComparingTypes(name, root, regs, byRoot, dk, which, ctorOk) ==
    LET croot  == Clean(root)
        det    == Detect(which, DirState(dk, croot))
        detect == <<Call("DetectDriverType", croot, <<>>)>>
        init   == <<Call("init", croot, <<>>)>>
        driver == [type |-> name, root |-> croot, by |-> regs[name]]
        same   == [err |-> "nil", byRoot |-> byRoot, calls |-> <<>>, exited |-> FALSE]
    IN  IF name \notin DOMAIN regs THEN [same EXCEPT !.err = "ErrDriverNotSupported"]
        ELSE IF croot \in DOMAIN byRoot
             THEN IF byRoot[croot].type = name THEN same
                  ELSE [same EXCEPT !.err = "fatal", !.exited = TRUE]
        ELSE IF ~IsAbs(croot) THEN [same EXCEPT !.err = "ErrPathIsNotAbs"]
        ELSE IF det.err # "nil" /\ det.err # "ErrDriverNotInit"
             THEN [same EXCEPT !.err = det.err, !.calls = detect]
        ELSE IF det.t # name
             THEN [same EXCEPT !.err = "fatal", !.calls = detect, !.exited = TRUE]
        ELSE IF ~ctorOk
             THEN [same EXCEPT !.err = "ErrInit", !.calls = detect \o init]
        ELSE [same EXCEPT !.byRoot = (croot :> driver) @@ byRoot, !.calls = detect \o init]

\* An InitDriver that caches the driver before it knows whether the
\* initializer succeeded.
InitDriverCachingFirst(name, root, regs, byRoot, dk, which, ctorOk) ==
    LET croot  == Clean(root)
        det    == Detect(which, DirState(dk, croot))
        detect == <<Call("DetectDriverType", croot, <<>>)>>
        init   == <<Call("init", croot, <<>>)>>
        driver == [type |-> name, root |-> croot, by |-> regs[name]]
        same   == [err |-> "nil", byRoot |-> byRoot, calls |-> <<>>, exited |-> FALSE]
    IN  IF name \notin DOMAIN regs THEN [same EXCEPT !.err = "ErrDriverNotSupported"]
        ELSE IF croot \in DOMAIN byRoot THEN same
        ELSE IF ~IsAbs(croot) THEN [same EXCEPT !.err = "ErrPathIsNotAbs"]
        ELSE IF det.err # "nil" /\ det.err # "ErrDriverNotInit"
             THEN [same EXCEPT !.err = det.err, !.calls = detect]
        ELSE IF det.t # name
             THEN [same EXCEPT !.err = "fatal", !.calls = detect, !.exited = TRUE]
        ELSE [same EXCEPT !.err = IF ctorOk THEN "nil" ELSE "ErrInit",
                          !.byRoot = (croot :> driver) @@ byRoot, !.calls = detect \o init]

\* InitDriver: the error returned, the drivers by root afterwards, the calls
\* made and whether the process was ended by glog.Fatalf, when the
\* initializer succeeds iff ctorOk.
InitDriver(name, root, regs, byRoot, dk, which, ctorOk) ==
    LET croot  == Clean(root)
        det    == Detect(which, DirState(dk, croot))
        detect == <<Call("DetectDriverType", croot, <<>>)>>
        init   == <<Call("init", croot, <<>>)>>
        driver == [type |-> name, root |-> croot, by |-> regs[name]]
        same   == [err |-> "nil", byRoot |-> byRoot, calls |-> <<>>, exited |-> FALSE]
    IN  IF name \notin DOMAIN regs THEN [same EXCEPT !.err = "ErrDriverNotSupported"]
        ELSE IF croot \in DOMAIN byRoot THEN same
        ELSE IF ~IsAbs(croot) THEN [same EXCEPT !.err = "ErrPathIsNotAbs"]
        ELSE IF det.err # "nil" /\ det.err # "ErrDriverNotInit"
             THEN [same EXCEPT !.err = det.err, !.calls = detect]
        ELSE IF det.t # name
             THEN [same EXCEPT !.err = "fatal", !.calls = detect, !.exited = TRUE]
        ELSE IF ~ctorOk
             THEN [same EXCEPT !.err = "ErrInit", !.calls = detect \o init]
        ELSE [same EXCEPT !.byRoot = (croot :> driver) @@ byRoot, !.calls = detect \o init]

----------------------------------------------------------------------------
(* State                                                                   *)

VARIABLES
    \* nfs.Server
    volumes,        \* c.volumes: the volume paths to export
    clients,        \* c.clients: the permitted client addresses
    exported,       \* c.exported: the volume names of the last exports table
    network,        \* c.network
    mu,             \* c.Mutex: the thread that holds it, or NoThread
    cycle,          \* per thread: the Sync or Restart call it is in, or "none"
    pos,            \* per thread: the step of that call it is about to run
    \* the node the server runs on
    denyFile,       \* content of the access-deny file
    allowFile,      \* content of the access-allow file
    exportsFile,    \* content of the exports table
    mounts,         \* mount table: source mounted at edir/name, or NoMount
    entries,        \* entries of edir: "none", "dir" or "file" per name
    daemon,         \* the NFS daemon: "running" or "stopped"
    faults,         \* the failures external commands and file I/O answered so far
    \* observation of the calls
    trace,          \* the steps run by the Sync/Restart call in progress or last finished
    mountCmds,      \* the number of mount commands run by that call
    last,           \* the last call made and what it returned
    pre,            \* desired state and files when that call took the lock
    again,          \* whether that call came right after a Sync that returned nil
    bindCall,       \* the last bindMount call made on its own: arguments, answers, results
    newCall         \* the last NewServer call made on its own: arguments, answers, results

VARIABLES
    \* package volume
    drivers,        \* drivers: the initializer registered per driver type
    driversByRoot,  \* driversByRoot: the driver initialized per cleaned root
    disk,           \* the state of the candidate root directories
    detector,       \* the file whose DetectDriverType the build links
    exited,         \* the process was ended by glog.Fatalf
    vlast           \* the last call into the package, its arguments and results

volVars == <<drivers, driversByRoot, disk, detector, exited, vlast>>

nfsVars ==
    << volumes, clients, exported, network, mu, cycle, pos, denyFile, allowFile,
       exportsFile, mounts, entries, daemon, faults, trace, mountCmds, last, pre, again,
       bindCall, newCall >>

VARIABLES
    \* calls in progress and what they did
    dfs,            \* DistributedFilesystem: its disk driver, its storage, the last Create
    initing,        \* InitDriver calls running in goroutines, and the initializers invoked
    reading         \* a SetClients and a Clients call running in goroutines

callVars == <<dfs, initing, reading>>

vars == <<nfsVars, volVars, callVars>>

----------------------------------------------------------------------------
(* Inputs and initial worlds                                               *)

NoThread == "none"

\* How many failures of external commands and of file I/O one behaviour holds.
MaxFaults == 1

\* The answers an external command or a file operation can give now.
Answers == IF faults < MaxFaults THEN {"ok", "err"} ELSE {"ok"}

Fault(io) == IF io = "ok" THEN 0 ELSE 1

Threads == {"g1", "g2"}

\* The volume paths the callers of AddVolume and RemoveVolume choose from:
\* two volumes of one directory, one of them written with a trailing slash.
VolumePaths ==
    { <<"", "data", "a", "t1">>,
      <<"", "data", "a", "t2", "">> }

\* Two volume paths with the same final segment.
CollidingPaths ==
    { <<"", "data", "a", "t1">>,
      <<"", "data", "b", "t1">> }

\* The client addresses the callers of SetClients choose from.
ClientAddrs == {"10.0.0.2", "10.0.0.1"}

EntryNames == {"t1", "t2", "old", "f"}

Networks == {"10.0.0.0/24", "0.0.0.0/0"}

NoMounts == [n \in EntryNames |-> NoMount]

NoEntries == [n \in EntryNames |-> "none"]

\* A machine nothing ran on yet.
FreshWorld ==
    [ network |-> "10.0.0.0/24", deny |-> <<>>, allow |-> <<>>, exports |-> <<>>,
      mounts |-> NoMounts, entries |-> NoEntries ]

\* A machine an earlier serviced process ran on: the files hold the blocks it
\* wrote (an older deny rule, one client, one export) around lines of the
\* operator, and its bind mount of the volume "old" is still there.
UsedWorld ==
    [ network |-> "0.0.0.0/0",
      deny    |-> <<"sshd : ALL", NL, NL, hostDenyMarker, NL, "rpcbind : ALL", NL>>,
      allow   |-> <<"sshd : 10.0.0.9", NL>> \o hostAllowDefaults
                     \o <<SP, "10.0.0.4", NL, NL>>,
      exports |-> <<"/", "srv", SP, "*(ro)", NL>>
                     \o etcExportsStartMarker
                     \o <<"/", "exports", "/", "shares", "/", "old", TAB, "*",
                          exportLineOptions, NL>>
                     \o etcExportsEndMarker
                     \o <<"#", SP, "tail", NL>>,
      mounts  |-> [NoMounts EXCEPT !["old"] = <<"", "data", "a", "old">>],
      entries |-> [NoEntries EXCEPT !["old"] = "dir", !["f"] = "file"] ]

\* A machine whose operator wrote the files by hand: an indented line, a line
\* exporting the serviced export directory itself, the deny rule already
\* there, and an empty directory left in the export tree.
OperatorWorld ==
    [ network |-> "10.0.0.0/24",
      deny    |-> <<"sshd : ALL", NL>> \o hostDenyDefaults,
      allow   |-> <<"sshd : 10.0.0.9", NL>>,
      exports |-> <<SP, "/", "srv", SP, "*(ro)", NL,
                    "/", "exports", "/", "shares", TAB, "*(rw)", NL>>,
      mounts  |-> NoMounts,
      entries |-> [NoEntries EXCEPT !["old"] = "dir"] ]

Worlds == {FreshWorld, UsedWorld, OperatorWorld}

\* No bindMount call was made on its own.
NoBind == [fn |-> "none"]

\* No NewServer call was made on its own.
NoNew == [fn |-> "none"]

NoPre == [volumes |-> {}, clients |-> {}, deny |-> <<>>, allow |-> <<>>, exports |-> <<>>]

\* Root directories on the disk, and the states they can be in: never
\* created, empty, holding the marker directory of a driver, or holding a
\* btrfs subvolume and no marker.
RootDirs == { <<"", "r">>, <<"", "r", "s">> }

Entry(name) == [name |-> name, dir |-> TRUE]

EmptyDir == [Missing EXCEPT !.stat = "ok", !.readdir = "ok"]

RsyncDir == [EmptyDir EXCEPT !.entries = <<Entry(MarkerDir(DRIVER_RSYNC)), Entry(<<"vol1">>)>>]

DeviceMapperDir == [EmptyDir EXCEPT !.entries = <<Entry(MarkerDir(DRIVER_DEVICEMAPPER))>>]

BtrfsDir ==
    [EmptyDir EXCEPT !.entries = <<Entry(MarkerDir(DRIVER_BTRFS)), Entry(<<"vol1">>)>>,
                     !.magic = "btrfs", !.subvols = {<<"vol1">>}]

SubvolDir ==
    [EmptyDir EXCEPT !.entries = <<Entry(<<"vol1">>)>>,
                     !.magic = "btrfs", !.subvols = {<<"vol1">>}]

FreshDisk == [p \in RootDirs |-> Missing]

Disks ==
    { FreshDisk,
      (<<"", "r">> :> RsyncDir) @@ (<<"", "r", "s">> :> EmptyDir),
      (<<"", "r">> :> DeviceMapperDir) @@ (<<"", "r", "s">> :> RsyncDir),
      (<<"", "r">> :> SubvolDir) @@ (<<"", "r", "s">> :> BtrfsDir),
      (<<"", "">> :> RsyncDir) @@ (<<"", "r">> :> RsyncDir) @@ (<<"", "r", "s">> :> Missing) }

\* The maps of the package before anything is registered.
NoDrivers == [n \in {} |-> NoDriver]

NoCall ==
    [ op |-> "none", kind |-> NoType, path |-> NoPath, name |-> NoPath, ctor |-> "",
      ctorOk |-> FALSE, err |-> "nil", rootDir |-> NoPath, volumeName |-> NoPath,
      driver |-> NoDriver, found |-> FALSE, calls |-> <<>>, cmds |-> <<>> ]

\* The package after its init(), on the disk dk.
RegistryStart(dk, which) ==
    /\ drivers = NoDrivers
    /\ driversByRoot = NoDrivers
    /\ disk = dk
    /\ detector = which
    /\ exited = FALSE
    /\ vlast = NoCall

\* No Create call was made: the disk driver holds no volume, the storage was
\* told of none.
NoDfs ==
    [ disk |-> {}, net |-> {}, synced |-> {},
      call |-> [fn |-> "none", tenantID |-> "", diskErr |-> "nil", addErr |-> "nil",
                syncErr |-> "nil", calls |-> <<>>, err |-> "nil"] ]

\* A goroutine that is in no InitDriver call.
NotIniting ==
    [pc |-> "idle", name |-> NoType, root |-> NoPath, driver |-> NoDriver, err |-> "nil"]

\* No goroutine is in InitDriver, no initializer was invoked, no lookup was
\* made, the runtime met no concurrent access to a map.
NoIniting ==
    [ go |-> [t \in {"g1", "g2"} |-> NotIniting], made |-> <<>>, seen |-> <<>>,
      fault |-> FALSE ]

\* No goroutine is in SetClients or in Clients.
NoReading ==
    [ set |-> [pc |-> "idle", todo |-> <<>>, old |-> {}, new |-> {}],
      get |-> [pc |-> "idle", n |-> 0, whole |-> {}] ]

NoCallInProgress ==
    /\ dfs = NoDfs
    /\ initing = NoIniting
    /\ reading = NoReading

\* The state NewServer returns in on the machine w: empty sets, the daemon started.
ServerStart(w) ==
    /\ volumes = {}
    /\ clients = {}
    /\ exported = {}
    /\ network = w.network
    /\ mu = NoThread
    /\ cycle = [t \in Threads |-> "none"]
    /\ pos = [t \in Threads |-> 0]
    /\ denyFile = w.deny
    /\ allowFile = w.allow
    /\ exportsFile = w.exports
    /\ mounts = w.mounts
    /\ entries = w.entries
    /\ daemon = "running"
    /\ faults = 0
    /\ trace = <<>>
    /\ mountCmds = 0
    /\ last = [op |-> "NewServer", err |-> "nil"]
    /\ pre = NoPre
    /\ again = FALSE
    /\ bindCall = NoBind
    /\ newCall = NoNew

InitNfs ==
    /\ NoCallInProgress
    /\ \E w \in Worlds : ServerStart(w)
    /\ RegistryStart(FreshDisk, "detect.go")

----------------------------------------------------------------------------
(* nfs.Server: the calls                                                   *)

\* An entry that does not wait for the mutex to be free.
LockWithoutWaiting(t) == cycle[t] = "none"

\* c.Lock(): the caller proceeds only while no other call holds the mutex.
Lock(t) == mu = NoThread /\ cycle[t] = "none"

\* A Sync that reloads the daemon before it has written the exports table.
SyncStepsReloadFirst ==
    <<"hostsDeny", "hostsAllow", "start", "reload", "writeExports", "cleanupBindMounts">>

\* The steps of Sync and of Restart, in the order the code runs them.
SyncSteps ==
    <<"hostsDeny", "hostsAllow", "writeExports", "start", "reload", "cleanupBindMounts">>

RestartSteps ==
    <<"hostsDeny", "hostsAllow", "writeExports", "restart", "cleanupBindMounts">>

Steps(op) == IF op = "Sync" THEN SyncSteps ELSE RestartSteps

\* The step thread t is about to run.
AtStep(t, step) == cycle[t] # "none" /\ Steps(cycle[t])[pos[t]] = step

\* What the managed files hold for the synchronizer, for comparing two Syncs.
Snapshot ==
    [volumes |-> volumes, clients |-> clients,
     deny |-> denyFile, allow |-> allowFile, exports |-> exportsFile]

\* A call that is not a Sync/Restart returned: the observation of the last
\* cycle is dropped (unless a cycle is in progress).
ObserveCall(op) ==
    /\ last' = [op |-> op, err |-> "nil"]
    /\ again' = FALSE
    /\ IF mu = NoThread
       THEN trace' = <<>> /\ mountCmds' = 0 /\ pre' = NoPre
       ELSE UNCHANGED <<trace, mountCmds, pre>>

\* Server.SetClients
SetClients(t, cs) ==
    /\ Lock(t)
    /\ clients' = cs
    /\ ObserveCall("SetClients")
    /\ UNCHANGED <<volumes, exported, network, mu, cycle, pos, denyFile, allowFile,
                   exportsFile, mounts, entries, daemon, faults>>

\* An AddVolume that exports the volume at once.
AddVolumeExporting(t, volumePath) ==
    /\ Lock(t)
    /\ volumes' = volumes \cup {volumePath}
    /\ exported' = exported \cup {VolName(volumePath)}
    /\ ObserveCall("AddVolume")
    /\ UNCHANGED <<clients, network, mu, cycle, pos, denyFile, allowFile,
                   exportsFile, mounts, entries, daemon, faults>>

\* Server.AddVolume
AddVolume(t, volumePath) ==
    /\ Lock(t)
    /\ volumes' = volumes \cup {volumePath}
    /\ ObserveCall("AddVolume")
    /\ UNCHANGED <<clients, exported, network, mu, cycle, pos, denyFile, allowFile,
                   exportsFile, mounts, entries, daemon, faults>>

\* Server.RemoveVolume
RemoveVolume(t, volumePath) ==
    /\ Lock(t)
    /\ volumes' = volumes \ {volumePath}
    /\ ObserveCall("RemoveVolume")
    /\ UNCHANGED <<clients, exported, network, mu, cycle, pos, denyFile, allowFile,
                   exportsFile, mounts, entries, daemon, faults>>

\* Server.Stop: stop() under the lock.
Stop(t) ==
    /\ Lock(t)
    /\ \E io \in Answers :
          /\ daemon' = IF io = "ok" THEN "stopped" ELSE daemon
          /\ faults' = faults + Fault(io)
          /\ last' = [op |-> "Stop", err |-> IF io = "ok" THEN "nil" ELSE "err"]
    /\ again' = FALSE
    /\ trace' = <<>> /\ mountCmds' = 0 /\ pre' = NoPre
    /\ UNCHANGED <<volumes, clients, exported, network, mu, cycle, pos, denyFile,
                   allowFile, exportsFile, mounts, entries>>

\* Entry of Sync and of Restart: c.Lock(); defer c.Unlock()
Begin(t, op) ==
    /\ Lock(t)
    /\ mu' = t
    /\ cycle' = [cycle EXCEPT ![t] = op]
    /\ pos' = [pos EXCEPT ![t] = 1]
    /\ trace' = <<>>
    /\ mountCmds' = 0
    /\ last' = [op |-> op, err |-> "running"]
    /\ pre' = Snapshot
    /\ again' = (last = [op |-> "Sync", err |-> "nil"])
    /\ UNCHANGED <<volumes, clients, exported, network, denyFile, allowFile,
                   exportsFile, mounts, entries, daemon, faults>>

\* The call of thread t returns err: the deferred Unlock runs.
Return(t, err) ==
    /\ mu' = NoThread
    /\ cycle' = [cycle EXCEPT ![t] = "none"]
    /\ pos' = [pos EXCEPT ![t] = 0]
    /\ last' = [op |-> cycle[t], err |-> err]

\* After a step: a failed step returns its error, the last step returns nil,
\* any other step is followed by the next one.
Continue(t, step, ok) ==
    /\ trace' = Append(trace, [step |-> step, ok |-> ok])
    /\ IF ~ok THEN Return(t, "err")
       ELSE IF pos[t] = Len(Steps(cycle[t])) THEN Return(t, "nil")
       ELSE /\ pos' = [pos EXCEPT ![t] = pos[t] + 1]
            /\ UNCHANGED <<mu, cycle, last>>

\* Step: c.hostsDeny().  Reading or writing the file may fail.
StepHostsDeny(t) ==
    /\ AtStep(t, "hostsDeny")
    /\ \E io \in Answers :
          /\ faults' = faults + Fault(io)
          /\ denyFile' = IF io = "ok" THEN hostsDeny(denyFile) ELSE denyFile
          /\ Continue(t, "hostsDeny", io = "ok")
    /\ UNCHANGED <<volumes, clients, exported, network, allowFile, exportsFile,
                   mounts, entries, daemon, mountCmds, pre, again>>

\* Step: c.hostsAllow()
StepHostsAllow(t) ==
    /\ AtStep(t, "hostsAllow")
    /\ \E io \in Answers :
          /\ faults' = faults + Fault(io)
          /\ allowFile' = IF io = "ok" THEN hostsAllow(allowFile, clients) ELSE allowFile
          /\ Continue(t, "hostsAllow", io = "ok")
    /\ UNCHANGED <<volumes, clients, exported, network, denyFile, exportsFile,
                   mounts, entries, daemon, mountCmds, pre, again>>

\* A bindMount answer without failure: at once, or after one stale-handle retry.
MountsAtOnce == [probe |-> "ok", mkdir |-> "ok", exit1 |-> 0, exit2 |-> 0]

MountsOnRetry == [probe |-> "ok", mkdir |-> "ok", exit1 |-> 32, exit2 |-> 0]

FailingOutcomes == MountOutcomes \ {MountsAtOnce, MountsOnRetry}

\* The answers of the external world to the bindMount calls of one
\* writeExports: the call at position failAt of the iteration (0: none) gets
\* the failing answer bad, the others succeed, those of the volumes in retried
\* after one stale-handle retry.
BindAnswers(ord, failAt, bad, retried) ==
    [v \in Range(ord) |->
        IF failAt > 0 /\ v = ord[failAt] THEN bad
        ELSE IF v \in retried THEN MountsOnRetry ELSE MountsAtOnce]

\* The state after writeExports ran its loop with result r and then read and
\* rewrote the exports table with answer io.
WriteExportsDone(t, r, io) ==
    /\ mounts' = r.mnt
    /\ entries' = r.ent
    /\ mountCmds' = mountCmds + Len(r.cmds)
    /\ exported' = IF r.err = "nil" THEN r.exports ELSE exported
    /\ exportsFile' = IF r.err = "nil" /\ io = "ok"
                      THEN ExportsFileContents(exportsFile, r.lines)
                      ELSE exportsFile
    /\ faults' = faults + (IF r.err = "nil" /\ io = "ok" THEN 0 ELSE 1)
    /\ Continue(t, "writeExports", r.err = "nil" /\ io = "ok")

ExportLoopStart == 
    [err |-> "nil", exports |-> {}, lines |-> <<>>, cmds |-> <<>>,
     mnt |-> mounts, ent |-> entries]

\* Step: c.writeExports().  The volumes are visited in the iteration order of
\* the map, which the language leaves open; a failing bindMount returns before
\* c.exported is set; reading or writing the exports table may fail after it.
StepWriteExports(t) ==
    /\ AtStep(t, "writeExports")
    /\ \E ord \in Orders(volumes) :
          \/ \E retried \in SUBSET { v \in volumes : mounts[VolName(v)] = NoMount },
                io \in Answers :
                WriteExportsDone(t,
                    ExportLoop(ord, BindAnswers(ord, 0, MountsAtOnce, retried),
                               network, ExportLoopStart), io)
          \/ /\ faults < MaxFaults
             /\ \E failAt \in 1..Len(ord), bad \in FailingOutcomes :
                   WriteExportsDone(t,
                       ExportLoop(ord, BindAnswers(ord, failAt, bad, {}),
                                  network, ExportLoopStart), "ok")
    /\ UNCHANGED <<volumes, clients, network, denyFile, allowFile, daemon, pre, again>>

\* Steps: start(), reload(), restart() of the NFS daemon.
StepDaemon(t, step) ==
    /\ AtStep(t, step)
    /\ \E io \in Answers :
          /\ faults' = faults + Fault(io)
          /\ daemon' = IF io = "ok" /\ step \in {"start", "restart"} THEN "running" ELSE daemon
          /\ Continue(t, step, io = "ok")
    /\ UNCHANGED <<volumes, clients, exported, network, denyFile, allowFile,
                   exportsFile, mounts, entries, mountCmds, pre, again>>

\* Whether cleanupBindMounts met a failure (it only logs them).
CleanupFailed(exp, mnt, ent, readdir, oc) ==
    \/ readdir = "err"
    \/ \E n \in Stale(exp, ent) :
          \/ oc[n] = "probeErr"
          \/ oc[n] = "umountErr" /\ mnt[n] # NoMount
          \/ oc[n] = "removeErr"

\* The number of failing answers among those given to one cleanupBindMounts.
CleanupFaults(readdir, oc) ==
    Fault(readdir) + Cardinality({ n \in DOMAIN oc : oc[n] # "ok" })

\* Step: c.cleanupBindMounts(); it returns nothing, the call then returns nil.
StepCleanup(t) ==
    /\ AtStep(t, "cleanupBindMounts")
    /\ \E readdir \in Answers, oc \in [Stale(exported, entries) -> CleanupOutcomes] :
          LET r == cleanupBindMounts(exported, mounts, entries, readdir, oc)
          IN  /\ faults + CleanupFaults(readdir, oc) <= MaxFaults
              /\ faults' = faults + CleanupFaults(readdir, oc)
              /\ mounts' = r.mnt
              /\ entries' = r.ent
              /\ trace' = Append(trace,
                     [step |-> "cleanupBindMounts",
                      ok   |-> ~CleanupFailed(exported, mounts, entries, readdir, oc)])
              /\ Return(t, "nil")
    /\ UNCHANGED <<volumes, clients, exported, network, denyFile, allowFile,
                   exportsFile, daemon, mountCmds, pre, again>>

\* The calls and steps one thread can take, with volume paths from paths.
ServerCall(t, paths) ==
    \/ \E cs \in SUBSET ClientAddrs : SetClients(t, cs)
    \/ \E p \in paths : AddVolume(t, p)
    \/ \E p \in paths : RemoveVolume(t, p)
    \/ Begin(t, "Sync")
    \/ Begin(t, "Restart")
    \/ StepHostsDeny(t)
    \/ StepHostsAllow(t)
    \/ StepWriteExports(t)
    \/ StepDaemon(t, "start")
    \/ StepDaemon(t, "reload")
    \/ StepDaemon(t, "restart")
    \/ StepCleanup(t)

\* One caller at a time.
NextNfs == ServerCall("g1", VolumePaths) /\ UNCHANGED <<volVars, callVars, bindCall, newCall>>

SpecNfs == InitNfs /\ [][NextNfs]_vars

----------------------------------------------------------------------------
(* volume package: the calls                                               *)

\* Driver types asked for, initializers, roots, volume names and paths passed.
NilInit == "nil"

Initializers == {"NewA", "NewB"}

\* What callers register: every driver type with its initializer, rsync also
\* with a second one, and a nil initializer.
Registrations ==
    { <<t, "NewA">> : t \in DriverTypes }
        \cup { <<DRIVER_RSYNC, "NewB">>, <<DRIVER_BTRFS, NilInit>> }

\* What a driver answers to Exists and whether its Get or Create succeeds.
DriverAnswers == { <<TRUE, TRUE>>, <<FALSE, TRUE>>, <<FALSE, FALSE>> }

RootInputs ==
    { <<"", "">>, <<"", "r">>, <<"", "r", "">>, <<"", "r", "s">>, <<"r">> }

NameInputs == { <<"v">>, <<"a", "..", "v">>, <<"s", "v">>, <<"s">>, <<"">> }

PathInputs ==
    { <<"", "r">>, <<"", "r", "">>, <<"", "r", "s">>, <<"", "r", "v">>,
      <<"", "r", "s", "v">>, <<"", "r", "a", "..", "v">>, <<"", "q", "v">>, <<"r", "v">> }

\* A Register where the last registration of a name wins.
RegisterOverwriting(name, driverInit) ==
    /\ ~exited
    /\ drivers' = IF driverInit # NilInit
                  THEN (name :> driverInit) @@ drivers
                  ELSE drivers
    /\ vlast' = [NoCall EXCEPT !.op = "Register", !.kind = name, !.ctor = driverInit,
                    !.err = IF driverInit = NilInit THEN "ErrInvalidDriverInit"
                            ELSE IF name \in DOMAIN drivers THEN "ErrDriverExists"
                            ELSE "nil"]
    /\ UNCHANGED <<driversByRoot, disk, detector, exited, nfsVars, callVars>>

\* Register
Register(name, driverInit) ==
    /\ ~exited
    /\ drivers' = IF driverInit # NilInit /\ name \notin DOMAIN drivers
                  THEN (name :> driverInit) @@ drivers
                  ELSE drivers
    /\ vlast' = [NoCall EXCEPT !.op = "Register", !.kind = name, !.ctor = driverInit,
                    !.err = IF driverInit = NilInit THEN "ErrInvalidDriverInit"
                            ELSE IF name \in DOMAIN drivers THEN "ErrDriverExists"
                            ELSE "nil"]
    /\ UNCHANGED <<driversByRoot, disk, detector, exited, nfsVars, callVars>>

\* Registered
Registered(name) ==
    /\ ~exited
    /\ vlast' = [NoCall EXCEPT !.op = "Registered", !.kind = name,
                    !.found = name \in DOMAIN drivers]
    /\ UNCHANGED <<drivers, driversByRoot, disk, detector, exited, nfsVars, callVars>>

\* Unregister
Unregister(name) ==
    /\ ~exited
    /\ drivers' = [n \in DOMAIN drivers \ {name} |-> drivers[n]]
    /\ driversByRoot' = [r \in { q \in DOMAIN driversByRoot : driversByRoot[q].type # name }
                            |-> driversByRoot[r]]
    /\ vlast' = [NoCall EXCEPT !.op = "Unregister", !.kind = name]
    /\ UNCHANGED <<disk, detector, exited, nfsVars, callVars>>

\* A call of InitDriver.
DoInitDriver(name, root, ctorOk) ==
    LET r == InitDriver(name, root, drivers, driversByRoot, disk, detector, ctorOk) IN
    /\ ~exited
    /\ driversByRoot' = r.byRoot
    /\ exited' = r.exited
    /\ vlast' = [NoCall EXCEPT !.op = "InitDriver", !.kind = name, !.path = root,
                    !.ctorOk = ctorOk, !.err = r.err, !.calls = r.calls]
    /\ UNCHANGED <<drivers, disk, detector, nfsVars, callVars>>

\* A GetDriver that looks the root up as it is spelled.
GetDriverAsSpelled(root) ==
    LET ok == root \in DOMAIN driversByRoot IN
    /\ ~exited
    /\ vlast' = [NoCall EXCEPT !.op = "GetDriver", !.path = root,
                    !.err = IF ok THEN "nil" ELSE "ErrDriverNotInit",
                    !.driver = IF ok THEN driversByRoot[root] ELSE NoDriver]
    /\ UNCHANGED <<drivers, driversByRoot, disk, detector, exited, nfsVars, callVars>>

\* GetDriver
GetDriver(root) ==
    LET ok == Clean(root) \in DOMAIN driversByRoot IN
    /\ ~exited
    /\ vlast' = [NoCall EXCEPT !.op = "GetDriver", !.path = root,
                    !.err = IF ok THEN "nil" ELSE "ErrDriverNotInit",
                    !.driver = IF ok THEN driversByRoot[Clean(root)] ELSE NoDriver]
    /\ UNCHANGED <<drivers, driversByRoot, disk, detector, exited, nfsVars, callVars>>

\* A call of SplitPath.
DoSplitPath(volumePath) ==
    LET r == SplitPath(volumePath, driversByRoot) IN
    /\ ~exited
    /\ vlast' = [NoCall EXCEPT !.op = "SplitPath", !.path = volumePath, !.err = r.err,
                    !.rootDir = r.rootDir, !.volumeName = r.volumeName]
    /\ UNCHANGED <<drivers, driversByRoot, disk, detector, exited, nfsVars, callVars>>

\* A call of FindMount.
DoFindMount(volumePath, exists, ok) ==
    LET r == FindMount(volumePath, driversByRoot, exists, ok) IN
    /\ ~exited
    /\ vlast' = [NoCall EXCEPT !.op = "FindMount", !.path = volumePath, !.err = r.err,
                    !.volumeName = r.vol, !.calls = r.calls]
    /\ UNCHANGED <<drivers, driversByRoot, disk, detector, exited, nfsVars, callVars>>

\* The answers of a driver to Mount: those of DriverAnswers, and a volume
\* that exists and fails to load.
MountAnswers == DriverAnswers \cup { <<TRUE, FALSE>> }

\* A call of Mount; found is the answer the driver has for Exists.
DoMount(volumeName, rootDir, exists, ok) ==
    LET r == Mount(volumeName, rootDir, driversByRoot, exists, ok) IN
    /\ ~exited
    /\ vlast' = [NoCall EXCEPT !.op = "Mount", !.name = volumeName, !.path = rootDir,
                    !.err = r.err, !.volumeName = r.vol, !.calls = r.calls,
                    !.found = exists]
    /\ UNCHANGED <<drivers, driversByRoot, disk, detector, exited, nfsVars, callVars>>

\* The call driver.Cleanup() on the driver of root and what it returned.
CleanupCall(root, failing) ==
    [fn |-> "Cleanup", on |-> root, arg |-> <<>>,
     err |-> IF root \in failing THEN "err" ELSE "nil"]

\* A ShutdownAll that returns at the first Cleanup that fails.
RECURSIVE ShutdownAllUntilFailure(_, _)
ShutdownAllUntilFailure(ord, failing) ==
    IF ord = <<>> THEN [err |-> "nil", calls |-> <<>>]
    ELSE IF Head(ord) \in failing
         THEN [err |-> "ErrBadDriverShutdown", calls |-> <<CleanupCall(Head(ord), failing)>>]
         ELSE LET r == ShutdownAllUntilFailure(Tail(ord), failing)
              IN  [r EXCEPT !.calls = <<CleanupCall(Head(ord), failing)>> \o @]

\* ShutdownAll: Cleanup of every driver, in the order ord the map is ranged
\* over, when the drivers of the roots in failing fail to clean up: the
\* errors are collected, and the result depends on whether there is one.
ShutdownAll(ord, failing) ==
    LET calls == [i \in DOMAIN ord |-> CleanupCall(ord[i], failing)]
        errs  == SelectSeq(calls, LAMBDA c : c.err # "nil")
    IN  [err |-> IF Len(errs) > 0 THEN "ErrBadDriverShutdown" ELSE "nil", calls |-> calls]

\* A call of ShutdownAll.
DoShutdownAll(ord, failing) ==
    LET r == ShutdownAll(ord, failing) IN
    /\ ~exited
    /\ vlast' = [NoCall EXCEPT !.op = "ShutdownAll", !.err = r.err, !.calls = r.calls]
    /\ UNCHANGED <<drivers, driversByRoot, disk, detector, exited, nfsVars, callVars>>

NextVol ==
    \/ \E reg \in Registrations : Register(reg[1], reg[2])
    \/ \E name \in DriverTypes : Registered(name)
    \/ \E name \in DriverTypes : Unregister(name)
    \/ \E name \in DriverTypes, root \in RootInputs, ctorOk \in BOOLEAN :
          DoInitDriver(name, root, ctorOk)
    \/ \E root \in RootInputs : GetDriver(root)
    \/ \E p \in PathInputs : DoSplitPath(p)
    \/ \E p \in PathInputs, a \in DriverAnswers : DoFindMount(p, a[1], a[2])
    \/ \E ord \in Orders(DOMAIN driversByRoot), failing \in SUBSET DOMAIN driversByRoot :
          DoShutdownAll(ord, failing)

InitVol ==
    /\ NoCallInProgress
    /\ ServerStart(FreshWorld)
    /\ \E dk \in Disks, which \in {"detect.go", "volume.go"} : RegistryStart(dk, which)

SpecVol == InitVol /\ [][NextVol]_vars

----------------------------------------------------------------------------
(* Reading the managed files back                                          *)

SyncNil == [op |-> "Sync", err |-> "nil"]

\* The part of the exports table between the BEGIN and the END marker.
ManagedExports(file) ==
    LET i    == Index(file, etcExportsStartMarker)
        rest == Suffix(file, i + Len(etcExportsStartMarker))
        j    == Index(rest, etcExportsEndMarker)
    IN  IF i < 0 THEN <<>>
        ELSE IF j < 0 THEN rest ELSE Prefix(rest, j)

\* The parts of the exports table before the BEGIN and after the END marker.
OutsideExports(file) ==
    LET i    == Index(file, etcExportsStartMarker)
        rest == Suffix(file, i)
        j    == Index(rest, etcExportsEndMarker)
    IN  IF i < 0 THEN <<file, <<>> >>
        ELSE <<Prefix(file, i),
               IF j < 0 THEN <<>> ELSE Suffix(rest, j + Len(etcExportsEndMarker))>>

\* The block of an access file from its marker line on, and the part before
\* the block (the block starts with the line break in front of the marker).
ManagedBlock(file, marker) ==
    LET i == Index(file, <<marker>>) IN IF i < 0 THEN <<>> ELSE Suffix(file, i)

OutsideBlock(file, marker) ==
    LET i == Index(file, <<marker>>) IN
    IF i < 0 THEN file ELSE IF i = 0 THEN <<>> ELSE Prefix(file, i - 1)

\* The export lines of the volumes vs in the order ord.
RECURSIVE LinesOf(_, _)
LinesOf(ord, net) ==
    IF ord = <<>> THEN <<>> ELSE ExportLine(Head(ord), net) \o LinesOf(Tail(ord), net)

\* sec holds exactly one export line per volume of vs, in some order.
OneLinePerVolume(sec, vs, net) == \E ord \in Orders(vs) : sec = LinesOf(ord, net)

\* A line of the exports table that names a mountpoint serviced manages.
Conflicting(raw) ==
    /\ ~HasHashPrefix(TrimSpace(raw))
    /\ Fields(raw) # <<>>
    /\ Fields(raw)[1] \in mountpaths

\* The content s with its conflicting lines prefixed as comments and every
\* other byte kept.
RECURSIVE CommentedOut(_)
CommentedOut(s) ==
    IF s = <<>> THEN <<>>
    ELSE LET i    == Index(s, <<NL>>)
             raw  == IF i < 0 THEN s ELSE Prefix(s, i)
             term == IF i < 0 THEN <<>> ELSE <<NL>>
             rest == IF i < 0 THEN <<>> ELSE Suffix(s, i + 1)
         IN  (IF Conflicting(raw) THEN etcExportsRemoveComment \o raw ELSE raw)
                \o term \o CommentedOut(rest)

----------------------------------------------------------------------------
(* Claims about the export synchronizer                                    *)

\* C1 (as claimed): after Sync returns nil the exported set is the set of
\* base names of the cleaned desired paths, and no directory of the export
\* tree outside that set is still bind-mounted or still present - also when
\* an unmount failed during the cleanup step.
C1_ExportedSetAndTreeClean ==
    last = SyncNil =>
        /\ exported = { VolName(p) : p \in volumes }
        /\ \A n \in EntryNames :
              n \notin exported => mounts[n] = NoMount /\ entries[n] # "dir"

\* C2: after Sync returns nil the managed section of the exports table holds
\* exactly one line per desired volume path and nothing else, so no line of
\* a volume that was removed before the Sync.
C2_OneLinePerDesiredVolume ==
    last = SyncNil => OneLinePerVolume(ManagedExports(exportsFile), volumes, network)

\* C2 witness: a Sync returned nil with a volume desired, and the table held,
\* before it, the line of a volume that had been removed.
C2_Witness ==
    /\ last = SyncNil
    /\ volumes = { <<"", "data", "a", "t1">> }
    /\ Contains(ManagedExports(pre.exports), ExportLine(<<"", "data", "a", "t2", "">>, network))
    /\ ~Contains(exportsFile, ExportLine(<<"", "data", "a", "t2", "">>, network))

\* C3 (as claimed): a Sync that returns nil right after a Sync that returned
\* nil, with no other call in between, leaves the managed sections of the
\* three files byte-identical and runs no mount command.
C3_SecondSyncIdentical ==
    (last = SyncNil /\ again) =>
        /\ ManagedBlock(denyFile, hostDenyMarker) = ManagedBlock(pre.deny, hostDenyMarker)
        /\ ManagedBlock(allowFile, hostAllowMarker) = ManagedBlock(pre.allow, hostAllowMarker)
        /\ ManagedExports(exportsFile) = ManagedExports(pre.exports)
        /\ mountCmds = 0

\* C4 (as claimed): after Sync returns nil, what each file holds outside its
\* managed region is byte for byte what it held before (conflicting export
\* lines prefixed as comments), and the managed regions hold what the desired
\* volumes, the clients and the network give.
C4_OutsideBytesPreserved ==
    last = SyncNil =>
        /\ OutsideBlock(denyFile, hostDenyMarker) = OutsideBlock(pre.deny, hostDenyMarker)
        /\ OutsideBlock(allowFile, hostAllowMarker) = OutsideBlock(pre.allow, hostAllowMarker)
        /\ OutsideExports(exportsFile)[1] = CommentedOut(OutsideExports(pre.exports)[1])
        /\ OutsideExports(exportsFile)[2] = CommentedOut(OutsideExports(pre.exports)[2])
        /\ OneLinePerVolume(ManagedExports(exportsFile), volumes, network)
        /\ ManagedBlock(allowFile, hostAllowMarker)
              = Tail(hostAllowDefaults) \o <<SP>> \o JoinSp(SortStrings(clients)) \o <<NL, NL>>
        /\ ManagedBlock(denyFile, hostDenyMarker) = Tail(hostDenyDefaults)

\* C5 (as claimed): a failing step of a Sync or Restart is the last step of
\* its cycle, the call returns an error, and what the earlier steps wrote
\* and mounted is still there.
C5_FailedStepReturnsError ==
    \A i \in DOMAIN trace :
        ~trace[i].ok =>
            /\ i = Len(trace)
            /\ last.op \in {"Sync", "Restart"} /\ last.err = "err"
            /\ (i > 1 => denyFile = hostsDeny(pre.deny))
            /\ (i > 2 => allowFile = hostsAllow(pre.allow, clients))
            /\ (i > 3 => /\ OneLinePerVolume(ManagedExports(exportsFile), volumes, network)
                         /\ \A v \in volumes : mounts[VolName(v)] # NoMount)

\* C6: the steps of a Sync run in the order deny list, allow list, exports
\* table, start, reload, cleanup, those of a Restart in the order deny list,
\* allow list, exports table, restart, cleanup, and a step runs only after
\* all steps before it succeeded.
C6_StepsInOrder ==
    LET order == IF last.op = "Sync"
                 THEN <<"hostsDeny", "hostsAllow", "writeExports",
                        "start", "reload", "cleanupBindMounts">>
                 ELSE <<"hostsDeny", "hostsAllow", "writeExports",
                        "restart", "cleanupBindMounts">>
    IN  /\ trace # <<>> => last.op \in {"Sync", "Restart"}
        /\ Len(trace) <= Len(order)
        /\ \A i \in DOMAIN trace :
              /\ trace[i].step = order[i]
              /\ (i < Len(trace) => trace[i].ok)

\* C6 witness: a Sync ran all six steps and returned nil.
C6_Witness == last = SyncNil /\ Len(trace) = Len(SyncSteps) /\ volumes # {}

----------------------------------------------------------------------------
(* Claims about the driver registry and the path resolver                  *)

\* The step taken is a call of InitDriver; vlast' holds its arguments.
InitDriverStep == vlast'.op = "InitDriver"

\* The root passed is spelled as a cleaned absolute path.
Canonical(p) == IsAbs(p) /\ Clean(p) = p

\* Every driver is kept under its cleaned absolute root, one per root.
OneDriverPerCanonicalRoot ==
    \A r \in DOMAIN driversByRoot : Canonical(r) /\ driversByRoot[r].root = r

\* No binding is dropped or changed by the step.
BindingsKept ==
    \A r \in DOMAIN driversByRoot :
        r \in DOMAIN driversByRoot' /\ driversByRoot'[r] = driversByRoot[r]

\* C7 (as claimed, in the case of a fresh root): InitDriver of a registered
\* driver type on a canonical root that is not bound and on which detection
\* reports "not initialized", with an initializer that succeeds, returns nil
\* and binds the root to a driver of that type.
C7_InitDriverBindsFreshRoot ==
    [][ ( /\ InitDriverStep
          /\ Canonical(vlast'.path)
          /\ vlast'.path \notin DOMAIN driversByRoot
          /\ vlast'.kind \in DOMAIN drivers
          /\ vlast'.ctorOk
          /\ Detect(detector, DirState(disk, vlast'.path)).err = "ErrDriverNotInit" )
        => ( /\ vlast'.err = "nil"
             /\ vlast'.path \in DOMAIN driversByRoot'
             /\ driversByRoot'[vlast'.path].type = vlast'.kind ) ]_vars

\* C8 (as claimed): every root is bound under its cleaned path to one
\* driver, and every InitDriver on a root whose cleaned path is bound
\* returns nil, runs no detection and no initializer and leaves the bindings
\* as they are.
C8_InitDriverOnBoundRootReturnsNil ==
    [][ /\ OneDriverPerCanonicalRoot'
        /\ InitDriverStep => BindingsKept
        /\ (InitDriverStep /\ Clean(vlast'.path) \in DOMAIN driversByRoot)
              => ( /\ vlast'.err = "nil"
                   /\ vlast'.calls = <<>>
                   /\ driversByRoot' = driversByRoot ) ]_vars

\* C8 (amended): as above for a registered driver type; for a driver type
\* that is not registered InitDriver on a bound root returns
\* ErrDriverNotSupported, and it too runs nothing and leaves the bindings as
\* they are.
C8_InitDriverOnBoundRootNoOp ==
    [][ /\ OneDriverPerCanonicalRoot'
        /\ InitDriverStep => BindingsKept
        /\ (InitDriverStep /\ Clean(vlast'.path) \in DOMAIN driversByRoot)
              => ( /\ vlast'.err = IF vlast'.kind \in DOMAIN drivers
                                   THEN "nil" ELSE "ErrDriverNotSupported"
                   /\ vlast'.calls = <<>>
                   /\ ~exited'
                   /\ driversByRoot' = driversByRoot ) ]_vars

\* C8 witness: InitDriver was called with the spelling "/r/" of the bound
\* root "/r" and returned nil without a call.
C8_Witness ==
    /\ vlast.op = "InitDriver" /\ vlast.err = "nil" /\ vlast.calls = <<>>
    /\ vlast.path = <<"", "r", "">>
    /\ <<"", "r">> \in DOMAIN driversByRoot
    /\ Cardinality(DOMAIN driversByRoot) = 2

C10_MountRejectsUnsplittableName ==
    (vlast.op = "Mount"
        /\ SplitPath(Join(vlast.path, vlast.name), driversByRoot)
              # [rootDir |-> vlast.path, volumeName |-> vlast.name, err |-> "nil"])
    => (vlast.err # "nil" /\ vlast.calls = <<>>)

\* The cleaned path q is the cleaned path p or a directory above it.
AtOrAbove(q, p) ==
    /\ IsAbs(q) = IsAbs(p)
    /\ Len(Elems(q)) <= Len(Elems(p))
    /\ SubSeq(Elems(p), 1, Len(Elems(q))) = Elems(q)

\* A volume name in cleaned form: relative, no empty, "." or ".." piece.
CleanName(v) == v = Clean(v) /\ ~IsAbs(v) /\ Head(v) \notin {".", ".."}

\* The last call was SplitPath of the join of the bound root r and the name v.
SplitOfJoin(r, v) ==
    /\ vlast.op = "SplitPath"
    /\ r \in DOMAIN driversByRoot
    /\ vlast.path = Join(r, v)

\* C11 (as claimed, for names in cleaned form): SplitPath of the join of a
\* bound root R and a volume name V returns R and V and no error, whatever
\* other roots are bound.
C11_SplitPathInvertsJoin ==
    \A r \in RootDirs, v \in NameInputs :
        (SplitOfJoin(r, v) /\ CleanName(v))
        => /\ vlast.err = "nil"
           /\ vlast.rootDir = r
           /\ vlast.volumeName = v

\* C11 (amended): SplitPath of the join of a bound root R and a volume name
\* V in cleaned form returns R and V and no error when no other bound root
\* lies at the joined path or between R and it; when one does, SplitPath
\* returns the deepest such root and the rest of the path below it.
C11_SplitPathInvertsJoinBelowDeepestRoot ==
    \A r \in RootDirs, v \in NameInputs :
        (SplitOfJoin(r, v) /\ CleanName(v))
        => LET between == { q \in DOMAIN driversByRoot :
                              q # r /\ AtOrAbove(r, q) /\ AtOrAbove(q, Join(r, v)) }
           IN  /\ vlast.err = "nil"
               /\ between = {} => (vlast.rootDir = r /\ vlast.volumeName = v)
               /\ between # {} => (vlast.rootDir \in between /\ vlast.rootDir # r)

\* C11 witness: with "/r" and "/r/s" bound, SplitPath("/r/s/v") returned
\* "/r/s" and "v", the join of the bound root "/r/s" and the name "v".
C11_Witness ==
    /\ SplitOfJoin(<<"", "r", "s">>, <<"v">>)
    /\ <<"", "r">> \in DOMAIN driversByRoot
    /\ vlast.rootDir = <<"", "r", "s">> /\ vlast.volumeName = <<"v">>

\* The step taken is a call of SplitPath; vlast' holds its argument and results.
SplitPathStep == vlast'.op = "SplitPath"

\* The bound roots that are directories above the cleaned path c.
BoundAbove(c) == { q \in DOMAIN driversByRoot : q # c /\ AtOrAbove(q, c) }

\* What C12 says of the results of the last SplitPath call.
DeepestRootAndRest ==
    LET c == Clean(vlast.path) IN
    /\ ~IsAbs(c) => vlast.err = "ErrPathIsNotAbs"
    /\ (IsAbs(c) /\ c \notin DOMAIN driversByRoot /\ BoundAbove(c) = {})
          => vlast.err = "ErrDriverNotInit"
    /\ (IsAbs(c) /\ c \notin DOMAIN driversByRoot /\ BoundAbove(c) # {})
          => /\ vlast.err = "nil"
             /\ vlast.rootDir \in BoundAbove(c)
             /\ \A q \in BoundAbove(c) : AtOrAbove(q, vlast.rootDir)
             /\ CleanName(vlast.volumeName)
             /\ Join(vlast.rootDir, vlast.volumeName) = c

\* C12: SplitPath of an absolute path whose cleaned form is not a bound root
\* returns the deepest bound root above it, "/" included, and the path below
\* that root; ErrDriverNotInit when no directory above it is bound;
\* ErrPathIsNotAbs for a path that is not absolute; and it leaves the
\* registry as it is.
C12_SplitPathDeepestRoot ==
    [][ SplitPathStep
        => /\ DeepestRootAndRest'
           /\ UNCHANGED <<drivers, driversByRoot>> ]_vars

\* C12 witness: with "/" and "/r" bound, SplitPath("/r/a/../v") returned the
\* deeper root "/r" and "v".
C12_Witness ==
    /\ vlast.op = "SplitPath" /\ vlast.path = <<"", "r", "a", "..", "v">>
    /\ {<<"", "">>, <<"", "r">>} \subseteq DOMAIN driversByRoot
    /\ vlast.err = "nil" /\ vlast.rootDir = <<"", "r">> /\ vlast.volumeName = <<"v">>

\* C13: when the cleaned form of the path is a bound root, SplitPath returns
\* an empty volume name and no error, and FindMount returns ErrPathIsDriver
\* and calls no driver.
C13_DriverRootIsNoVolume ==
    Clean(vlast.path) \in DOMAIN driversByRoot
    => /\ vlast.op = "SplitPath" => (vlast.err = "nil" /\ vlast.volumeName = <<"">>)
       /\ vlast.op = "FindMount" => (vlast.err = "ErrPathIsDriver" /\ vlast.calls = <<>>)

\* C13 witness: FindMount("/r/") with "/r" bound returned ErrPathIsDriver.
C13_Witness ==
    /\ vlast.op = "FindMount" /\ vlast.path = <<"", "r", "">>
    /\ <<"", "r">> \in DOMAIN driversByRoot
    /\ vlast.err = "ErrPathIsDriver"

----------------------------------------------------------------------------
(* More claims about the export synchronizer                               *)

\* The step taken is the cleanupBindMounts of a Sync or Restart.
CleanupStep ==
    /\ Len(trace') = Len(trace) + 1
    /\ Last(trace').step = "cleanupBindMounts"

\* The entry n of the export tree is as it was before the step.
Untouched(n) == entries'[n] = entries[n] /\ mounts'[n] = mounts[n]

MarkerFirstWorld ==
    [FreshWorld EXCEPT !.allow = Tail(hostAllowDefaults) \o <<SP, "10.0.0.4", NL, NL>>]

\* The longest access-allow file, in tokens, that a call still starts from.
MaxAllowLen == 20

InitAllow ==
    /\ NoCallInProgress
    /\ ServerStart(MarkerFirstWorld)
    /\ RegistryStart(FreshDisk, "detect.go")

NextAllow ==
    /\ Len(allowFile) <= MaxAllowLen
    /\ ServerCall("g1", { <<"", "data", "a", "t1">> })
    /\ UNCHANGED <<volVars, callVars, bindCall, newCall>>

\* The synchronizer on the machine of MarkerFirstWorld.
SpecAllow == InitAllow /\ [][NextAllow]_vars

\* How often the token tok occurs in s.
Count(s, tok) == Cardinality({ i \in DOMAIN s : s[i] = tok })

\* C15 (as claimed): after Sync returns nil the access-allow file holds one
\* managed block, past the marker, and its host list is 127.0.0.1 and then
\* the clients last passed to SetClients, sorted and joined by single
\* spaces, whatever the file held before.
C15_OneAllowBlock ==
    last = SyncNil =>
        /\ Count(allowFile, hostAllowMarker) = 1
        /\ ManagedBlock(allowFile, hostAllowMarker)
              = Tail(hostAllowDefaults) \o <<SP>> \o JoinSp(SortStrings(clients)) \o <<NL, NL>>

\* ---------------------------------------------------------------------------
\* bindMount called on its own
\* ---------------------------------------------------------------------------

\* The answers of the external world to one bindMount call, with every kind
\* of end of the mount command: success, a failure without the bit 32, with
\* that bit alone, with it among others, and a command that could not be run.
BindOutcomes ==
    { [probe |-> "err", mkdir |-> "ok",  exit1 |-> 0, exit2 |-> 0],
      [probe |-> "ok",  mkdir |-> "err", exit1 |-> 0, exit2 |-> 0] }
    \cup { [probe |-> "ok", mkdir |-> "ok", exit1 |-> a, exit2 |-> b] :
              a \in {0, 1, 32, 33, -1}, b \in {0, 1, 32, -1} }

\* The source directories bindMount is called with.
BindSources == { <<"", "data", "a", "t1">>, <<"", "data", "b", "t1">> }

\* The number of runs of the mount command after which no call is made.
MaxBindCmds == 2

\* bindMount(src, dst) with dst the entry `name` of the export tree.
DoBindMount ==
    \E src \in BindSources, name \in EntryNames, o \in BindOutcomes :
        LET r == bindMountImp(src, name, mounts, entries, o)
        IN  /\ mounts' = r.mnt
            /\ entries' = r.ent
            /\ mountCmds' = mountCmds + Len(r.cmds)
            /\ bindCall' = [fn |-> "bindMount", src |-> src, name |-> name, o |-> o,
                            err |-> r.err, msg |-> r.msg, cmds |-> r.cmds]
            /\ mountCmds < MaxBindCmds
            /\ UNCHANGED <<volumes, clients, exported, network, mu, cycle, pos, denyFile,
                           allowFile, exportsFile, daemon, faults, trace, last, pre, again,
                           newCall, volVars, callVars>>

InitBind ==
    /\ NoCallInProgress
    /\ \E w \in Worlds : ServerStart(w)
    /\ RegistryStart(FreshDisk, "detect.go")

NextBind == DoBindMount

SpecBind == InitBind /\ [][NextBind]_vars

\* The exit status has the bit of value 32 set.
Bit32Set(e) == e >= 0 /\ e % 64 >= 32

\* C16: one bindMount call runs the mount command at most twice, first with
\* the option bind; it runs it a second time, with bind and remount, exactly
\* when the first run failed with an exit status that has the bit 32 set; a
\* first run that failed without that bit, and a retry that failed, make the
\* call return an error with the output and the error of that run.
C16_BindMountRetriesOnce ==
    bindCall.fn = "bindMount" =>
        LET n == Len(bindCall.cmds)
            o == bindCall.o
        IN  /\ n <= 2
            /\ n >= 1 => bindCall.cmds[1] = <<"bind">>
            /\ n = 2 <=> (n >= 1 /\ o.exit1 # 0 /\ Bit32Set(o.exit1))
            /\ n = 2 => bindCall.cmds[2] = <<"bind", "remount">>
            /\ (n = 1 /\ o.exit1 # 0) =>
                   (bindCall.err = "err" /\ bindCall.msg = Msg("out1", o.exit1))
            /\ (n = 2 /\ o.exit2 # 0) =>
                   (bindCall.err = "err" /\ bindCall.msg = Msg("out2", o.exit2))
            /\ (n = 1 /\ o.exit1 = 0) => bindCall.err = "nil"
            /\ (n = 2 /\ o.exit2 = 0) => bindCall.err = "nil"

\* A first run that ended with the status 33 was retried, and the retry failed
\* with the bit 32 again without a third run.
C16_Witness ==
    /\ bindCall.fn = "bindMount"
    /\ bindCall.o.exit1 = 33
    /\ bindCall.o.exit2 = 32
    /\ Len(bindCall.cmds) = 2
    /\ bindCall.err = "err"

\* ---------------------------------------------------------------------------
\* Concurrent callers of one Server
\* ---------------------------------------------------------------------------

InitConc ==
    /\ NoCallInProgress
    /\ ServerStart(FreshWorld)
    /\ RegistryStart(FreshDisk, "detect.go")

\* Two goroutines call the operations of one Server in any interleaving; a
\* call whose c.Lock() finds the mutex held takes no step until it is free.
NextConc ==
    /\ \E t \in Threads :
          \/ ServerCall(t, VolumePaths)
          \/ Stop(t)
    /\ UNCHANGED <<volVars, callVars, bindCall, newCall>>

SpecConc == InitConc /\ [][NextConc]_vars

\* The operations that are not a cycle.
ShortCalls == {"SetClients", "AddVolume", "RemoveVolume", "Stop"}

\* While a goroutine is inside Sync or Restart, the step taken is the next
\* step of that goroutine, or its return.
StepOfHolder ==
    /\ \A u \in Threads \ {mu} : cycle[u] = "none" /\ cycle'[u] = "none"
    /\ cycle[mu] # "none"
    /\ \/ mu' = mu /\ pos'[mu] = pos[mu] + 1 /\ cycle'[mu] = cycle[mu]
       \/ mu' = NoThread /\ cycle'[mu] = "none" /\ last'.op = cycle[mu]
    /\ Len(trace') = pos[mu]
    /\ \A i \in 1..Len(trace') : trace'[i].step = Steps(cycle[mu])[i]

\* C17: the operations of one Server exclude each other: while a Sync or a
\* Restart is between its first and its last step, no other Sync or Restart
\* takes a step, no SetClients, AddVolume, RemoveVolume or Stop runs, and the
\* desired volume and client sets stay as they are.
C17_OperationsExcludeEachOther ==
    [][ mu # NoThread =>
           /\ StepOfHolder
           /\ volumes' = volumes
           /\ clients' = clients
           /\ last'.op \notin ShortCalls ]_vars

\* The goroutine g2 is inside a Sync, past its file rewrites, and no call of
\* the goroutine g1 can take a step.
C17_Witness ==
    /\ mu = "g2"
    /\ cycle["g2"] = "Sync"
    /\ pos["g2"] = 4
    /\ volumes # {}
    /\ ~ ENABLED (ServerCall("g1", VolumePaths) \/ Stop("g1"))

\* ---------------------------------------------------------------------------
\* A caller that keeps retrying Sync
\* ---------------------------------------------------------------------------

\* The client sets the caller of SetClients chooses from.
RetryClients == { {}, {"10.0.0.2"} }

InitRetry ==
    /\ NoCallInProgress
    /\ ServerStart(FreshWorld)
    /\ RegistryStart(FreshDisk, "detect.go")

\* The steps of the Sync in progress.
SyncStep(t) ==
    \/ StepHostsDeny(t)
    \/ StepHostsAllow(t)
    \/ StepWriteExports(t)
    \/ StepDaemon(t, "start")
    \/ StepDaemon(t, "reload")
    \/ StepCleanup(t)

\* One caller changes the desired state and calls Sync.
NextRetry ==
    /\ \/ \E cs \in RetryClients : SetClients("g1", cs)
       \/ \E p \in CollidingPaths : AddVolume("g1", p)
       \/ \E p \in CollidingPaths : RemoveVolume("g1", p)
       \/ Begin("g1", "Sync")
       \/ SyncStep("g1")
    /\ UNCHANGED <<volVars, callVars, bindCall, newCall>>

\* The call in progress of thread t goes on: it is at another step, or has
\* returned (the steps of a cycle are the only steps that change pos).
Proceed(t) == cycle[t] # "none" /\ pos' \in [Threads -> 0..Len(SyncSteps)]

\* The caller calls Sync again and again, a Sync that began runs to its
\* return, and the external commands fail MaxFaults times at most.
SpecRetry ==
    /\ InitRetry
    /\ [][NextRetry]_vars
    /\ SF_vars(Begin("g1", "Sync") /\ UNCHANGED <<volVars, callVars, bindCall, newCall>>)
    /\ WF_pos(Proceed("g1"))

\* No two volumes of vs have the same mountpoint.
OneVolumePerName(vs) == \A v, w \in vs : VolName(v) = VolName(w) => v = w

\* The exports section holds one line per volume of vs and the allow block
\* the clients cs.
FilesReflect(vs, cs) ==
    /\ OneLinePerVolume(ManagedExports(exportsFile), vs, network)
    /\ ManagedBlock(allowFile, hostAllowMarker)
          = Tail(hostAllowDefaults) \o <<SP>> \o JoinSp(SortStrings(cs)) \o <<NL, NL>>

\* The bind mounts of the export tree are those of the volumes of vs, each
\* mountpoint with the volume as its source.
MountsReflect(vs) ==
    \A n \in EntryNames :
        IF \E v \in vs : VolName(v) = n
        THEN \A v \in vs : VolName(v) = n => mounts[n] = v
        ELSE mounts[n] = NoMount

\* C18: once the desired volumes and clients stay as they are, the retried
\* Sync returns nil at last in a state where the exports section, the allow
\* block and the bind mounts (mountpoint and source) are those of the desired
\* state, whatever earlier cycles mounted or wrote.
C18_RetriedSyncConverges ==
    \A vs \in { x \in SUBSET CollidingPaths : OneVolumePerName(x) }, cs \in RetryClients :
        <>[](volumes = vs /\ clients = cs)
            => <>(last = SyncNil /\ FilesReflect(vs, cs) /\ MountsReflect(vs))

\* ---------------------------------------------------------------------------
\* Detection of the driver type called on its own
\* ---------------------------------------------------------------------------

\* The root directory detection is called on.
DetectRoot == <<"", "r">>

\* What the listing of the root can hold: nothing, a marker directory alone
\* or beside a volume, a volume alone, a file with the name of a marker, a
\* file alone, the monitor directory alone or beside a volume.
DetectEntries ==
    { <<>>,
      <<Entry(MarkerDir(DRIVER_DEVICEMAPPER))>>,
      <<Entry(MarkerDir(DRIVER_DEVICEMAPPER)), Entry(<<"vol1">>)>>,
      <<Entry(MarkerDir(DRIVER_RSYNC)), Entry(<<"vol1">>)>>,
      <<Entry(MarkerDir(DRIVER_BTRFS)), Entry(<<"vol1">>)>>,
      <<Entry(<<"vol1">>)>>,
      <<[name |-> MarkerDir(DRIVER_DEVICEMAPPER), dir |-> FALSE], Entry(<<"vol1">>)>>,
      <<[name |-> <<"vol1">>, dir |-> FALSE]>>,
      <<Entry(<<"monitor">>)>>,
      <<Entry(<<"monitor">>), Entry(<<"vol1">>)>> }

\* The states of the root: missing, unreadable, or a directory with its
\* listing, the type of its filesystem, the privileges of the caller and the
\* btrfs subvolumes under it.
DetectDirs ==
    { Missing, [Missing EXCEPT !.stat = "err"] }
    \cup { [stat |-> "ok", entries |-> es, readdir |-> rd, magic |-> m, who |-> w,
            subvols |-> sv] :
             es \in DetectEntries, rd \in {"ok", "err"}, m \in {"btrfs", "other"},
             w \in {"root", "sudoer", "user"}, sv \in { {}, {<<"vol1">>} } }

InitDetect ==
    /\ NoCallInProgress
    /\ ServerStart(FreshWorld)
    /\ \E d \in DetectDirs, which \in {"detect.go", "volume.go"} :
          RegistryStart(DetectRoot :> d, which)

\* The record of a call of detection fn on root that returned r; calls tells
\* whether the call before it was the same call.
DetectCall(fn, root, r) ==
    [NoCall EXCEPT !.op = fn, !.rootDir = root, !.kind = r.t, !.err = r.err,
                   !.cmds = r.cmds,
                   !.calls = IF vlast.op = fn /\ vlast.rootDir = root
                             THEN <<"again">> ELSE <<>>]

\* A call of detection fn on root returned r.
Detected(fn, root, r) ==
    /\ vlast' = DetectCall(fn, root, r)
    /\ UNCHANGED <<drivers, driversByRoot, disk, detector, exited, nfsVars, callVars>>

\* A detection that leaves its result behind as a marker directory.
DoDetectDriverTypeMarking(root) ==
    LET r == Detect(detector, disk[root]) IN
    /\ vlast' = DetectCall("DetectDriverType", root, r)
    /\ disk' = IF r.err = "nil" /\ ~IsDirIn(disk[root], MarkerDir(r.t))
               THEN [disk EXCEPT ![root].entries = <<Entry(MarkerDir(r.t))>> \o @]
               ELSE disk
    /\ UNCHANGED <<drivers, driversByRoot, detector, exited, nfsVars, callVars>>

\* DetectDriverType(root) of the build
DoDetectDriverType(root) == Detected("DetectDriverType", root, Detect(detector, disk[root]))

\* OldDetectDriverType(root)
DoOldDetectDriverType(root) ==
    Detected("OldDetectDriverType", root, OldDetectDriverType(disk[root]))

\* Something else than the program changes the root directory.
ChangeRoot(root) ==
    /\ \E d \in DetectDirs : disk' = [disk EXCEPT ![root] = d]
    /\ disk' # disk
    /\ vlast' = [NoCall EXCEPT !.op = "ChangeRoot", !.rootDir = root]
    /\ UNCHANGED <<drivers, driversByRoot, detector, exited, nfsVars, callVars>>

NextDetect ==
    \/ DoDetectDriverType(DetectRoot)
    \/ DoOldDetectDriverType(DetectRoot)
    \/ ChangeRoot(DetectRoot)

SpecDetect == InitDetect /\ [][NextDetect]_vars

\* The driver types whose marker directory the directory d holds.
Markers(d) == { t \in DriverTypes : IsDirIn(d, MarkerDir(t)) }

\* C19: DetectDriverType on a root that holds the marker directory of a
\* backend returns that backend and no error, whatever else the root holds,
\* whatever the type of its filesystem and the privileges of the caller.
C19_MarkerDecides ==
    vlast.op = "DetectDriverType" =>
        LET d == disk[vlast.rootDir] IN
        \A t \in Markers(d) :
            (d.stat = "ok" /\ Markers(d) = {t}) => (vlast.kind = t /\ vlast.err = "nil")

\* The functions that detect the driver type.
Detections == {"DetectDriverType", "OldDetectDriverType"}

HasExportLineForm(line, net) ==
    \E n \in EntryNames :
        line = <<"/", "exports", "/", "shares", "/", n, TAB,
                 (IF net = "0.0.0.0/0" THEN "*" ELSE net),
                 "(rw,no_root_squash,insecure,no_subtree_check,async)">>

\* C21: after a Sync or Restart that returned nil, every line of the managed
\* section of the exports table is the mountpoint of a volume, a tab, the
\* network given at construction (the wildcard * for 0.0.0.0/0) and the fixed
\* options in parentheses.
C21_ExportLineForm ==
    (last.op \in {"Sync", "Restart"} /\ last.err = "nil") =>
        LET lines == ScanLines(ManagedExports(exportsFile)) IN
        \A i \in DOMAIN lines : HasExportLineForm(lines[i], network)

\* A Sync on the server of the network 0.0.0.0/0 wrote a line with the wildcard.
C21_Witness ==
    /\ last = SyncNil
    /\ network = "0.0.0.0/0"
    /\ Cardinality(volumes) = 2
    /\ Len(ScanLines(ManagedExports(exportsFile))) = 2
    /\ Contains(ManagedExports(exportsFile), <<"t1", TAB, "*">>)

\* ---------------------------------------------------------------------------
\* NewServer called on its own
\* ---------------------------------------------------------------------------

\* What os.Stat, MkdirAll and Chmod answer for one directory NewServer
\* verifies: the path is missing (and can or cannot be made), is a file, is a
\* directory with or without the mode 0755 (which can or cannot be set), or
\* cannot be examined.
DirAnswers ==
    { [stat |-> "missing", mkdir |-> "ok",  chmod |-> "ok"],
      [stat |-> "missing", mkdir |-> "err", chmod |-> "ok"],
      [stat |-> "file",    mkdir |-> "ok",  chmod |-> "ok"],
      [stat |-> "dir",     mkdir |-> "ok",  chmod |-> "ok"],
      [stat |-> "narrow",  mkdir |-> "ok",  chmod |-> "ok"],
      [stat |-> "narrow",  mkdir |-> "ok",  chmod |-> "err"],
      [stat |-> "err",     mkdir |-> "ok",  chmod |-> "ok"] }

\* verifyExportsDir on a path with the answers a
verifyExportsDir(a) ==
    IF a.stat = "err" THEN "ErrStat"
    ELSE IF a.stat = "missing" THEN (IF a.mkdir = "ok" THEN "nil" ELSE "ErrMkdirAll")
    ELSE IF a.stat = "file" THEN "ErrBasePathNotDir"
    ELSE IF a.stat = "narrow" THEN (IF a.chmod = "ok" THEN "nil" ELSE "ErrChmod")
    ELSE "nil"

\* The most bits a mask of an address of the family can have.
MaskBits(family) == IF family = "v4" THEN 32 ELSE 128

\* net.ParseCIDR returns no error: the text is an address of a family, a
\* slash, and a number of bits the family allows.
ParseCIDROk(cidr) ==
    /\ cidr.family \in {"v4", "v6"}
    /\ cidr.slash
    /\ cidr.bits >= 0
    /\ cidr.bits <= MaskBits(cidr.family)

\* A test of the exported name for its length alone.
NameTooShort(name) == Len(name) < 2

\* len(exportedName) < 2 || strings.Contains(exportedName, "/")
InvalidExportedName(name) == Len(name) < 2 \/ Contains(name, <<"/">>)

\* NewServer(basePath, exportedName, network) with the answers of the
\* filesystem for the base path and the export directory and of start():
\* the error, whether a Server is returned, and how often start() ran.
NewServer(basePath, name, cidr, base, exp, startAnswer) ==
    LET fail(e) == [err |-> e, server |-> FALSE, starts |-> 0] IN
    IF InvalidExportedName(name) THEN fail("ErrInvalidExportedName")
    ELSE IF Len(basePath) < 2 THEN fail("ErrInvalidBasePath")
    ELSE IF verifyExportsDir(base) # "nil" THEN fail(verifyExportsDir(base))
    ELSE IF verifyExportsDir(exp) # "nil" THEN fail(verifyExportsDir(exp))
    ELSE IF ~ParseCIDROk(cidr) THEN fail("ErrInvalidNetwork")
    ELSE IF startAnswer # "ok" THEN [err |-> "ErrStart", server |-> FALSE, starts |-> 1]
    ELSE [err |-> "nil", server |-> TRUE, starts |-> 1]

\* The exported names, base paths (byte by byte) and networks callers give.
NewNames == { <<>>, <<"s">>, <<"s", "h">>, <<"s", "/", "h">>, <<"/", "s", "h">> }

NewBasePaths == { <<>>, <<"/">>, <<"/", "d">> }

NewNetworks ==
    { [family |-> "v4",   slash |-> TRUE,  bits |-> 24],
      [family |-> "v4",   slash |-> TRUE,  bits |-> 0],
      [family |-> "v4",   slash |-> TRUE,  bits |-> 33],
      [family |-> "v4",   slash |-> FALSE, bits |-> 0],
      [family |-> "v6",   slash |-> TRUE,  bits |-> 128],
      [family |-> "none", slash |-> TRUE,  bits |-> 24],
      [family |-> "v4",   slash |-> TRUE,  bits |-> -1] }

\* The process constructs its Server once.
DoNewServer ==
    /\ newCall = NoNew
    /\ \E basePath \in NewBasePaths, name \in NewNames, cidr \in NewNetworks,
       base \in DirAnswers, exp \in DirAnswers, startAnswer \in Answers :
        LET r == NewServer(basePath, name, cidr, base, exp, startAnswer) IN
        newCall' = [fn |-> "NewServer", basePath |-> basePath, name |-> name,
                       network |-> cidr, base |-> base, exp |-> exp,
                       err |-> r.err, server |-> r.server, starts |-> r.starts]
    /\ UNCHANGED <<volumes, clients, exported, network, mu, cycle, pos, denyFile,
                   allowFile, exportsFile, mounts, entries, daemon, faults, trace,
                   mountCmds, last, pre, again, bindCall, volVars, callVars>>

InitNew ==
    /\ NoCallInProgress
    /\ ServerStart(FreshWorld)
    /\ RegistryStart(FreshDisk, "detect.go")

NextNew == DoNewServer

SpecNew == InitNew /\ [][NextNew]_vars

\* The errors NewServer names for an invalid input.
ConfigurationErrors ==
    {"ErrInvalidExportedName", "ErrInvalidBasePath", "ErrBasePathNotDir", "ErrInvalidNetwork"}

\* The network of the call is valid CIDR.
ValidNetwork(n) ==
    n.slash /\ ((n.family = "v4" /\ n.bits \in 0..32) \/ (n.family = "v6" /\ n.bits \in 0..128))

\* C22: NewServer checks the exported name, the base path, the two
\* directories and the network in this order; the first input found invalid
\* makes it return the error named for it (ErrInvalidExportedName for a name
\* of less than 2 bytes or with a slash, ErrInvalidBasePath for a base path of
\* less than 2 bytes, ErrBasePathNotDir for a base path that is a file,
\* ErrInvalidNetwork for a network that is not CIDR), no Server, and start()
\* is not run.
C22_NewServerRejectsInvalidInputs ==
    newCall.fn = "NewServer" =>
        LET c       == newCall
            badName == Len(c.name) < 2 \/ \E i \in DOMAIN c.name : c.name[i] = "/"
            badBase == Len(c.basePath) < 2
            notDir  == c.base.stat = "file"
            dirsOk  == /\ c.base.stat \in {"dir", "missing", "narrow"}
                       /\ c.exp.stat \in {"dir", "missing", "narrow"}
                       /\ c.base.mkdir = "ok" /\ c.base.chmod = "ok"
                       /\ c.exp.mkdir = "ok" /\ c.exp.chmod = "ok"
        IN  /\ badName => c.err = "ErrInvalidExportedName"
            /\ (~badName /\ badBase) => c.err = "ErrInvalidBasePath"
            /\ (~badName /\ ~badBase /\ notDir) => c.err = "ErrBasePathNotDir"
            /\ (~badName /\ ~badBase /\ dirsOk /\ ~ValidNetwork(c.network))
                   => c.err = "ErrInvalidNetwork"
            /\ (badName \/ badBase \/ notDir \/ ~ValidNetwork(c.network))
                   => (c.err # "nil" /\ ~c.server /\ c.starts = 0)
            /\ c.err \in ConfigurationErrors => (~c.server /\ c.starts = 0)

\* NewServer was given a name with a slash in it, of two bytes or more, and
\* everything else valid.
C22_Witness ==
    /\ newCall.fn = "NewServer"
    /\ newCall.name = <<"s", "/", "h">>
    /\ newCall.basePath = <<"/", "d">>
    /\ newCall.base.stat = "dir"
    /\ ValidNetwork(newCall.network)
    /\ newCall.err = "ErrInvalidExportedName"
    /\ ~newCall.server

\* What AddVolume and RemoveVolume have to leave alone.
OutsideDesiredVolumes ==
    <<clients, exported, network, denyFile, allowFile, exportsFile, mounts, entries, daemon>>

\* C23: AddVolume and RemoveVolume return nil and change the desired volumes
\* alone: AddVolume adds one path (none when it is there already),
\* RemoveVolume removes one (none when it is not there); the clients, the
\* exported names, the three files, the bind mounts and the daemon stay as
\* they are.
C23_AddRemoveChangeDesiredVolumesOnly ==
    [][ last'.op \in {"AddVolume", "RemoveVolume"} =>
           /\ last'.err = "nil"
           /\ OutsideDesiredVolumes' = OutsideDesiredVolumes
           /\ last'.op = "AddVolume" =>
                  \E p \in VolumePaths : volumes' = volumes \cup {p}
           /\ last'.op = "RemoveVolume" =>
                  \E p \in VolumePaths : volumes' = volumes \ {p} ]_vars

\* The last volume was removed after a Sync exported it: its bind mount and
\* its export line are still there.
C23_Witness ==
    /\ last = [op |-> "RemoveVolume", err |-> "nil"]
    /\ volumes = {}
    /\ exported = {"t1"}
    /\ mounts["t1"] # NoMount
    /\ Contains(exportsFile, ExportLine(<<"", "data", "a", "t1">>, network))

\* ---------------------------------------------------------------------------
\* The client set and its readers
\* ---------------------------------------------------------------------------

\* Server.Clients with the keys of c.clients met in the order ord: a slice
\* of len(c.clients) strings is made, and every key is stored at the index i,
\* which stays 0.
ClientsOf(ord) ==
    [k \in 1..Len(ord) |-> IF k = 1 THEN ord[Len(ord)] ELSE ""]

\* The argument lists callers give to SetClients: none, one, two addresses,
\* one address twice, three addresses.
ClientLists ==
    { <<>>, <<"10.0.0.1">>, <<"10.0.0.2">>, <<"10.0.0.2", "10.0.0.1">>,
      <<"10.0.0.1", "10.0.0.1">>, <<"10.0.0.3", "10.0.0.1", "10.0.0.3">>,
      <<"10.0.0.1", "10.0.0.2", "10.0.0.3">> }

\* Server.Clients(): it takes no lock; the caller is not inside another call.
Clients(t) ==
    /\ cycle[t] = "none"
    /\ \E ord \in Orders(clients) :
          last' = [op |-> "Clients", err |-> "nil", result |-> ClientsOf(ord)]
    /\ again' = FALSE
    /\ IF mu = NoThread
       THEN trace' = <<>> /\ mountCmds' = 0 /\ pre' = NoPre
       ELSE UNCHANGED <<trace, mountCmds, pre>>
    /\ UNCHANGED <<volumes, clients, exported, network, mu, cycle, pos, denyFile,
                   allowFile, exportsFile, mounts, entries, daemon, faults>>

InitClients ==
    /\ NoCallInProgress
    /\ ServerStart(FreshWorld)
    /\ RegistryStart(FreshDisk, "detect.go")

\* One caller sets the clients, reads them, and synchronizes one volume.
NextClients ==
    /\ \/ \E addrs \in ClientLists : SetClients("g1", Range(addrs))
       \/ Clients("g1")
       \/ AddVolume("g1", <<"", "data", "a", "t1">>)
       \/ Begin("g1", "Sync")
       \/ SyncStep("g1")
    /\ UNCHANGED <<volVars, callVars, bindCall, newCall>>

SpecClients == InitClients /\ [][NextClients]_vars

\* C24: Clients() returns the addresses of the client set, each once, with
\* no empty and no missing entry.
C24_ClientsReturnsTheSet ==
    last.op = "Clients" =>
        /\ Len(last.result) = Cardinality(clients)
        /\ Range(last.result) = clients

\* ---------------------------------------------------------------------------
\* The registry without the path resolver
\* ---------------------------------------------------------------------------

\* The roots GetDriver is asked for: those given to InitDriver, and one
\* spelled with a "." segment.
LookupInputs == RootInputs \cup { <<"", ".", "r">> }

\* The calls that register, bind and look up drivers and mount volumes.
NextReg ==
    \/ \E reg \in Registrations : Register(reg[1], reg[2])
    \/ \E name \in DriverTypes : Registered(name)
    \/ \E name \in DriverTypes, root \in RootInputs, ctorOk \in BOOLEAN :
          DoInitDriver(name, root, ctorOk)
    \/ \E root \in LookupInputs : GetDriver(root)
    \/ \E n \in NameInputs, root \in RootInputs, a \in MountAnswers :
          DoMount(n, root, a[1], a[2])

\* A root directory that cannot be examined.
UnreadableDir == [Missing EXCEPT !.stat = "err"]

InitReg ==
    /\ NoCallInProgress
    /\ ServerStart(FreshWorld)
    /\ \E dk \in { FreshDisk,
                    (<<"", "">> :> RsyncDir) @@ (<<"", "r">> :> RsyncDir)
                        @@ (<<"", "r", "s">> :> Missing),
                    (<<"", "r">> :> UnreadableDir) @@ (<<"", "r", "s">> :> Missing) },
          which \in {"detect.go", "volume.go"} : RegistryStart(dk, which)

SpecReg == InitReg /\ [][NextReg]_vars

\* C25: Register of a nil initializer returns ErrInvalidDriverInit, Register
\* of a name that has an initializer returns ErrDriverExists (one of the two
\* when both are the case), and the map of initializers stays as it is: the
\* first registration wins.  Any other Register returns nil and puts the
\* initializer under the name; Registered(name) tells whether the name has one.
C25_RegisterKeepsFirst ==
    [][ /\ vlast'.op = "Register" =>
              LET name == vlast'.kind
                  init == vlast'.ctor
                  dup  == name \in DOMAIN drivers
              IN  /\ (init = NilInit /\ ~dup) => vlast'.err = "ErrInvalidDriverInit"
                  /\ (init # NilInit /\ dup) => vlast'.err = "ErrDriverExists"
                  /\ (init = NilInit \/ dup) =>
                         /\ vlast'.err \in {"ErrInvalidDriverInit", "ErrDriverExists"}
                         /\ drivers' = drivers
                  /\ (init # NilInit /\ ~dup) =>
                         /\ vlast'.err = "nil"
                         /\ DOMAIN drivers' = DOMAIN drivers \cup {name}
                         /\ drivers'[name] = init
                         /\ \A n \in DOMAIN drivers : drivers'[n] = drivers[n]
        /\ vlast'.op = "Registered" =>
              (vlast'.found <=> vlast'.kind \in DOMAIN drivers) ]_vars

\* A second initializer was refused for rsync, which keeps the first.
C25_Witness ==
    /\ vlast.op = "Register"
    /\ vlast.kind = DRIVER_RSYNC
    /\ vlast.ctor = "NewB"
    /\ vlast.err = "ErrDriverExists"
    /\ drivers[DRIVER_RSYNC] = "NewA"

\* The canonical spelling of a path without ".." segments: the "." segments
\* and the empty segments after the first are left out.
WithoutDots(p) ==
    LET kept == SelectSeq(Tail(p), LAMBDA x : x \notin {"", "."}) IN
    IF kept = <<>> /\ Len(p) > 1 /\ p[1] = "" THEN <<"", "">> ELSE <<p[1]>> \o kept

\* C26: GetDriver(root) returns the driver bound to the canonical spelling of
\* root, and ErrDriverNotInit with no driver when none is bound to it; a root
\* spelled with a trailing slash or a "." segment gets the driver of the
\* canonical root; the maps of the registry stay as they are.
C26_GetDriverByCanonicalRoot ==
    [][ vlast'.op = "GetDriver" =>
           LET c == WithoutDots(vlast'.path) IN
           /\ drivers' = drivers
           /\ driversByRoot' = driversByRoot
           /\ IF c \in DOMAIN driversByRoot
              THEN vlast'.err = "nil" /\ vlast'.driver = driversByRoot[c]
              ELSE vlast'.err = "ErrDriverNotInit" /\ vlast'.driver = NoDriver ]_vars

\* GetDriver("/./r") returned the driver bound to /r.
C26_Witness ==
    /\ vlast.op = "GetDriver"
    /\ vlast.path = <<"", ".", "r">>
    /\ vlast.err = "nil"
    /\ vlast.driver = driversByRoot[<<"", "r">>]
    /\ vlast.driver.root = <<"", "r">>

\* The call made the initializer of the driver run.
RanInit(calls) == \E i \in DOMAIN calls : calls[i].fn = "init"

\* C27: an InitDriver that does not return nil leaves the maps of the
\* registry as they are.  It returns ErrDriverNotSupported for a name that is
\* not registered, ErrPathIsNotAbs for a root that is not bound and not
\* absolute, the error of detection when that is another one than
\* ErrDriverNotInit, and the error of the initializer when that fails; when
\* detection finds another driver type than the one asked for, the process
\* exits and the initializer is not run.
C27_FailedInitDriverBindsNothing ==
    [][ vlast'.op = "InitDriver" =>
           LET name  == vlast'.kind
               c     == WithoutDots(vlast'.path)
               det   == Detect(detector, DirState(disk, c))
               fresh == name \in DOMAIN drivers /\ c \notin DOMAIN driversByRoot
               abs   == Len(c) > 1 /\ c[1] = ""
           IN  /\ vlast'.err # "nil" => (driversByRoot' = driversByRoot /\ drivers' = drivers)
               /\ name \notin DOMAIN drivers => vlast'.err = "ErrDriverNotSupported"
               /\ (fresh /\ ~abs) => vlast'.err = "ErrPathIsNotAbs"
               /\ (fresh /\ abs /\ det.err \notin {"nil", "ErrDriverNotInit"})
                      => (vlast'.err = det.err /\ ~RanInit(vlast'.calls) /\ ~exited')
               /\ (fresh /\ abs /\ det.err = "nil" /\ det.t = name /\ ~vlast'.ctorOk)
                      => (vlast'.err = "ErrInit" /\ ~exited')
               /\ (fresh /\ abs /\ det.err = "nil" /\ det.t # name)
                      => (exited' /\ ~RanInit(vlast'.calls)) ]_vars

\* The initializer of rsync failed on a root that holds an rsync driver on
\* disk: the root stays unbound.
C27_Witness ==
    /\ vlast.op = "InitDriver"
    /\ vlast.kind = DRIVER_RSYNC
    /\ vlast.err = "ErrInit"
    /\ RanInit(vlast.calls)
    /\ Clean(vlast.path) \notin DOMAIN driversByRoot

\* InitDriver returned the error of a detection that could not examine the root.
InitDriverDetectionFailed ==
    /\ vlast.op = "InitDriver"
    /\ vlast.err \in {"ErrStat", "ErrReadDir"}
    /\ ~RanInit(vlast.calls)


\* The volume name and the root of a Mount rejoin and split back to
\* themselves over the bound roots byRoot: the name is not empty and the root
\* is, as spelled, a bound root.
SplitsBack(volumeName, rootDir, byRoot) ==
    LET sp == SplitPath(Join(rootDir, volumeName), byRoot) IN
    /\ sp.err = "nil"
    /\ sp.rootDir = rootDir
    /\ sp.volumeName = volumeName
    /\ volumeName # <<"">>

\* C28: Mount of a valid volume name on a bound root asks the driver of the
\* root whether the volume exists, then calls Get when the driver says it
\* exists and Create when it says it does not, and nothing else; when that
\* call fails Mount returns the driver's error and no volume.  On a root that
\* is not bound Mount returns an error and calls neither Exists, Get nor
\* Create.
C28_MountGetsOrCreates ==
    [][ vlast'.op = "Mount" =>
           LET name == vlast'.name
               root == vlast'.path
               load == vlast'.calls[2]
           IN  /\ SplitsBack(name, root, driversByRoot) =>
                     /\ Len(vlast'.calls) = 2
                     /\ vlast'.calls[1] = Call("Exists", root, name)
                     /\ load.fn = (IF vlast'.found THEN "Get" ELSE "Create")
                     /\ load.on = root
                     /\ load.arg = name
                     /\ vlast'.err \in {"nil", "ErrDriver"}
                     /\ vlast'.err = "nil" => vlast'.volumeName = name
                     /\ vlast'.err # "nil" => vlast'.volumeName = NoPath
               /\ WithoutDots(root) \notin DOMAIN driversByRoot =>
                     /\ vlast'.err # "nil"
                     /\ vlast'.volumeName = NoPath
                     /\ vlast'.calls = <<>> ]_vars

\* Mount loaded an existing volume of a bound root, and the load failed.
C28_Witness ==
    /\ vlast.op = "Mount"
    /\ SplitsBack(vlast.name, vlast.path, driversByRoot)
    /\ vlast.found
    /\ vlast.err = "ErrDriver"
    /\ Len(vlast.calls) = 2
    /\ vlast.calls[2].fn = "Get"

\* Mount created a missing volume of a bound root.
MountCreated ==
    /\ vlast.op = "Mount"
    /\ SplitsBack(vlast.name, vlast.path, driversByRoot)
    /\ ~vlast.found
    /\ vlast.err = "nil"
    /\ vlast.calls[2].fn = "Create"

\* Mount was refused on a root that is not bound.
MountOnUnboundRoot ==
    /\ vlast.op = "Mount"
    /\ WithoutDots(vlast.path) \notin DOMAIN driversByRoot
    /\ vlast.err # "nil"


\* The entries of the directory d that could be volumes for the detection
\* fn of the build which: volume.go counts every entry not named "monitor",
\* OldDetectDriverType the directories among them, and DetectDriverType of
\* detect.go does not list the root.
Candidates(fn, which, d) ==
    IF fn = "OldDetectDriverType" THEN DirsNotMonitor(d.entries)
    ELSE IF which = "volume.go" THEN NotMonitor(d.entries)
    ELSE <<>>

\* The detection fn of the build which reads the listing of the root.
ListsRoot(fn, which) == fn = "OldDetectDriverType" \/ which = "volume.go"

\* C29: detection returns ErrDriverNotInit and no driver type when the root
\* does not exist, and when the root exists, holds no marker directory and
\* its listing, read without error, holds no entry other than "monitor".
C29_NothingToDetectIsNotInit ==
    vlast.op \in Detections =>
        LET d == disk[vlast.rootDir]
            empty == /\ d.stat = "ok"
                     /\ Markers(d) = {}
                     /\ ListsRoot(vlast.op, detector) => d.readdir = "ok"
                     /\ \A i \in DOMAIN d.entries : d.entries[i].name = <<"monitor">>
        IN  (d.stat = "missing" \/ empty)
                => (vlast.err = "ErrDriverNotInit" /\ vlast.kind = NoType)

\* Detection of volume.go returned ErrDriverNotInit on a root that exists
\* and holds the monitor directory alone.
C29_Witness ==
    /\ vlast.op = "DetectDriverType"
    /\ detector = "volume.go"
    /\ disk[vlast.rootDir].stat = "ok"
    /\ disk[vlast.rootDir].readdir = "ok"
    /\ disk[vlast.rootDir].entries = <<Entry(<<"monitor">>)>>
    /\ vlast.err = "ErrDriverNotInit"
    /\ vlast.kind = NoType

\* Detection returned ErrDriverNotInit on a root that does not exist.
DetectedMissingRoot ==
    /\ vlast.op \in Detections
    /\ disk[vlast.rootDir].stat = "missing"
    /\ vlast.err = "ErrDriverNotInit"

\* On a root with no directory but monitor, every detection finds no
\* candidate and returns ErrDriverNotInit where it finds no marker.
NoCandidateIsNotInit ==
    vlast.op \in Detections =>
        LET d == disk[vlast.rootDir] IN
        (/\ d.stat = "ok"
         /\ d.readdir = "ok"
         /\ Markers(d) = {}
         /\ Candidates(vlast.op, detector, d) = <<>>)
            => (vlast.err = "ErrDriverNotInit" /\ vlast.kind = NoType)


VolumeDetectionRefused ==
    /\ vlast.op = "DetectDriverType"
    /\ detector = "volume.go"
    /\ vlast.err = "ErrInsufficientPermissions"
    /\ vlast.cmds = <<"sudo -n btrfs help">>


----------------------------------------------------------------------------
(* Claims C31 to C40                                                        *)

\* The root d exists, its listing is read, it holds no marker directory
\* and at least one directory not named "monitor", and the btrfs probe does
\* not confirm a subvolume: the filesystem is not btrfs, or the caller may
\* run `btrfs subvolume show` and it fails on every entry.
NothingButVolumes(d) ==
    /\ d.stat = "ok"
    /\ d.readdir = "ok"
    /\ Markers(d) = {}
    /\ DirsNotMonitor(d.entries) # <<>>
    /\ \/ d.magic = "other"
       \/ d.magic = "btrfs" /\ d.who \in {"root", "sudoer"} /\ d.subvols = {}

\* C31: DetectDriverType, on a root that exists, holds no marker directory and
\* at least one candidate volume, where the btrfs probe does not confirm a
\* subvolume, returns rsync and no error.
C31_DefaultsToRsync ==
    (vlast.op = "DetectDriverType" /\ NothingButVolumes(disk[vlast.rootDir]))
        => (vlast.kind = DRIVER_RSYNC /\ vlast.err = "nil")

\* The detections that list the root, OldDetectDriverType and DetectDriverType
\* of volume.go, return rsync on such a root.
ListingDetectionDefaultsToRsync ==
    (/\ vlast.op \in Detections
     /\ ListsRoot(vlast.op, detector)
     /\ NothingButVolumes(disk[vlast.rootDir]))
        => (vlast.kind = DRIVER_RSYNC /\ vlast.err = "nil")

\* DetectDriverType of detect.go answered ErrDriverNotInit on such a root.
MarkerDetectionIgnoresVolumes ==
    /\ vlast.op = "DetectDriverType"
    /\ detector = "detect.go"
    /\ NothingButVolumes(disk[vlast.rootDir])
    /\ vlast.err = "ErrDriverNotInit"
    /\ vlast.kind = NoType


\* The policy block of the access-deny file: the marker line and the line
\* that denies the RPC services to all hosts.
DenyBlock == SubSeq(hostDenyDefaults, 2, 5)

\* How often sub occurs in s.
Occurrences(s, sub) ==
    Cardinality({ i \in 0..(Len(s) - Len(sub)) : SubSeq(s, i + 1, i + Len(sub)) = sub })

\* The content of s before its first marker line, all of s when it has none.
BeforeMarker(s) ==
    LET i == Index(s, <<hostDenyMarker>>) IN IF i < 0 THEN s ELSE Prefix(s, i)

\* a is the beginning of b
IsPrefixOf(a, b) == Len(a) <= Len(b) /\ SubSeq(b, 1, Len(a)) = a

\* A machine whose access-deny file is the policy block and nothing else,
\* the marker being the first line of the file.
DenyFirstWorld == [FreshWorld EXCEPT !.deny = Tail(hostDenyDefaults)]

InitDeny ==
    /\ NoCallInProgress
    /\ ServerStart(DenyFirstWorld)
    /\ RegistryStart(FreshDisk, "detect.go")

NextDeny ==
    /\ ServerCall("g1", { <<"", "data", "a", "t1">> })
    /\ UNCHANGED <<volVars, callVars, bindCall, newCall>>

\* The synchronizer on the machine of DenyFirstWorld.
SpecDeny == InitDeny /\ [][NextDeny]_vars

\* C32: the access-deny file is written only when it does not hold the policy
\* block, and then what stood before the marker is kept; once Sync has
\* returned nil the file holds the policy block exactly once.
C32_DenyBlockWrittenOnce ==
    [][ /\ denyFile' # denyFile =>
              /\ Occurrences(denyFile, DenyBlock) = 0
              /\ IsPrefixOf(BeforeMarker(denyFile), denyFile')
        /\ last' = SyncNil => Occurrences(denyFile', DenyBlock) = 1 ]_vars

\* Sync returned nil and the access-deny file holds the policy block twice.
DenyBlockTwice ==
    /\ last = SyncNil
    /\ Occurrences(denyFile, DenyBlock) = 2


\* The line l of an exports table as writeExports keeps it: without the
\* blanks around it, and behind the removal comment when it is no comment and
\* its first field is one of the two managed mount directories.
KeptLine(l) ==
    LET t == TrimSpace(l) IN
    IF Conflicting(t) THEN etcExportsRemoveComment \o t ELSE t

\* The lines of the parts of the exports table outside the managed section.
OutsideLines(file) ==
    ScanLines(OutsideExports(file)[1]) \o ScanLines(OutsideExports(file)[2])

\* C33: after Sync returns nil every line the exports table held outside the
\* managed section is still there, in its place: behind the prefix
\* "# serviced removed: " when it is no comment and its first field is
\* exportsDir or exportsDir/exportedName, as it was otherwise; and a Sync that
\* follows a Sync leaves what is outside the managed section, prefixed lines
\* included, as it is, so that the file does not grow.
C33_ConflictingLinesCommentedOut ==
    last = SyncNil =>
        LET old == OutsideLines(pre.exports)
            new == OutsideLines(exportsFile)
        IN  /\ Len(new) = Len(old)
            /\ \A i \in DOMAIN old : new[i] = KeptLine(old[i])
            /\ again => /\ new = old
                        /\ Len(exportsFile) = Len(pre.exports)

\* A Sync returned nil on a table that held a line for exportsDir/exportedName
\* outside the managed section: the line is now behind the prefix.
C33_Witness ==
    /\ last = SyncNil
    /\ \E i \in DOMAIN OutsideLines(pre.exports) :
          /\ Conflicting(OutsideLines(pre.exports)[i])
          /\ OutsideLines(exportsFile)[i]
                = etcExportsRemoveComment \o OutsideLines(pre.exports)[i]

\* A Sync found a line prefixed by the Sync before it and left it alone.
PrefixedLineLeftAlone ==
    /\ last = SyncNil
    /\ again
    /\ \E i \in DOMAIN OutsideLines(pre.exports) :
          /\ Prefix(OutsideLines(pre.exports)[i], 2) = etcExportsRemoveComment
          /\ OutsideLines(exportsFile)[i] = OutsideLines(pre.exports)[i]


\* C34 (as claimed): after Sync returns nil with desired volumes of pairwise
\* distinct base names, the mountpoint of every desired volume is bind-mounted
\* and the source of the mount is that volume, whatever an earlier Sync
\* mounted there.
C34_MountSourceIsDesiredPath ==
    (last = SyncNil /\ OneVolumePerName(volumes)) =>
        \A p \in volumes : mounts[VolName(p)] = Clean(p)

\* Sync returned nil and the mountpoint of the one desired volume is bound to
\* a volume that was removed.
MountOfRemovedVolumeKept ==
    /\ last = SyncNil
    /\ volumes = { <<"", "data", "a", "t1">> }
    /\ mounts["t1"] = <<"", "data", "b", "t1">>

\* After Sync returns nil the mountpoint of every desired volume is
\* bind-mounted, from some source.
DesiredMountpointsMounted ==
    last = SyncNil => \A p \in volumes : mounts[VolName(p)] # NoMount


C36_MountedDirectoryNeverRemoved ==
    [][ \A n \in EntryNames :
          (entries[n] = "dir" /\ entries'[n] # "dir") =>
              /\ mounts'[n] = NoMount
              /\ n \notin exported
              /\ Len(trace') > 0
              /\ trace'[Len(trace')].step = "cleanupBindMounts" ]_vars

\* The cleanup of a Sync unmounted the stale directory "old" of the machine
\* of UsedWorld and removed it.
C36_Witness ==
    /\ last = SyncNil
    /\ network = UsedWorld.network
    /\ "old" \notin exported
    /\ mounts["old"] = NoMount
    /\ entries["old"] = "none"

\* The cleanup failed on the stale directory "old", which is still mounted
\* and still there.
StaleMountSkipped ==
    /\ last = SyncNil
    /\ Len(trace) = Len(SyncSteps)
    /\ ~trace[Len(trace)].ok
    /\ "old" \notin exported
    /\ mounts["old"] # NoMount
    /\ entries["old"] = "dir"


\* ---------------------------------------------------------------------------
\* DistributedFilesystem.Create
\* ---------------------------------------------------------------------------

\* The tenants volumes are created for.
TenantIDs == {"t1", "t2", "t3"}

\* vol.Path() of the volume the disk driver created for the tenant.
VolumePathOf(tenantID) == <<"", "data", "a", tenantID>>

\* What dfs.disk.Create answers: nil or an error; what dfs.net.AddVolume and
\* dfs.net.Sync answer.
DiskAnswers == {"nil", "ErrVolumeExists"}

NetAnswers == {"nil", "err"}

\* A Create that returns the error of Sync.
CreateReturningSyncError(tenantID, diskErr, addErr, syncErr) ==
    LET create == Call("disk.Create", <<>>, tenantID)
        add    == Call("net.AddVolume", <<>>, VolumePathOf(tenantID))
        sync   == Call("net.Sync", <<>>, <<>>)
    IN  IF diskErr # "nil" THEN [err |-> diskErr, calls |-> <<create>>]
        ELSE [err |-> syncErr, calls |-> <<create, add, sync>>]

\* DistributedFilesystem.Create: the error returned and the calls made on
\* dfs.disk and dfs.net, in their order, when these answer diskErr, addErr
\* and syncErr.
Create(tenantID, diskErr, addErr, syncErr) ==
    LET create == Call("disk.Create", <<>>, tenantID)
        add    == Call("net.AddVolume", <<>>, VolumePathOf(tenantID))
        sync   == Call("net.Sync", <<>>, <<>>)
    IN  IF diskErr # "nil" THEN [err |-> diskErr, calls |-> <<create>>]
        ELSE [err |-> "nil", calls |-> <<create, add, sync>>]

\* A call of Create.  The disk driver holds the volumes it created, the
\* storage the paths it accepted, and what it held at its last Sync that
\* succeeded.
DoCreate(tenantID, diskErr, addErr, syncErr) ==
    LET r     == Create(tenantID, diskErr, addErr, syncErr)
        made  == diskErr = "nil"
        net   == IF made /\ addErr = "nil"
                 THEN dfs.net \cup {VolumePathOf(tenantID)} ELSE dfs.net
    IN  /\ dfs' = [ disk   |-> IF made THEN dfs.disk \cup {tenantID} ELSE dfs.disk,
                    net    |-> net,
                    synced |-> IF made /\ syncErr = "nil" THEN net ELSE dfs.synced,
                    call   |-> [fn |-> "Create", tenantID |-> tenantID,
                                diskErr |-> diskErr, addErr |-> addErr,
                                syncErr |-> syncErr, calls |-> r.calls, err |-> r.err] ]
        /\ UNCHANGED <<nfsVars, volVars, initing, reading>>

InitCreate ==
    /\ NoCallInProgress
    /\ ServerStart(FreshWorld)
    /\ RegistryStart(FreshDisk, "detect.go")

NextCreate ==
    \E tenantID \in TenantIDs, diskErr \in DiskAnswers, addErr, syncErr \in NetAnswers :
        DoCreate(tenantID, diskErr, addErr, syncErr)

SpecCreate == InitCreate /\ [][NextCreate]_vars

\* The names of the calls in cs, in their order.
CallNames(cs) == [i \in 1..Len(cs) |-> cs[i].fn]

\* C37: Create calls dfs.disk.Create first.  When that fails, Create returns
\* its error and calls nothing else.  Otherwise it calls AddVolume with the
\* path of the volume and then Sync, each once, and returns nil whatever the
\* two answer.
C37_CreateThenAddVolumeThenSync ==
    dfs.call.fn = "Create" =>
        LET c == dfs.call IN
        /\ c.calls[1] = Call("disk.Create", <<>>, c.tenantID)
        /\ IF c.diskErr # "nil"
           THEN /\ c.err = c.diskErr
                /\ CallNames(c.calls) = <<"disk.Create">>
           ELSE /\ c.err = "nil"
                /\ CallNames(c.calls) = <<"disk.Create", "net.AddVolume", "net.Sync">>
                /\ c.calls[2].arg = VolumePathOf(c.tenantID)

\* Create returned nil although AddVolume and Sync both failed.
C37_Witness ==
    /\ dfs.call.fn = "Create"
    /\ dfs.call.diskErr = "nil"
    /\ dfs.call.addErr = "err"
    /\ dfs.call.syncErr = "err"
    /\ dfs.call.err = "nil"
    /\ Len(dfs.call.calls) = 3

\* The disk driver failed: Create returned its error and the storage was
\* not called.
CreateFailedOnDisk ==
    /\ dfs.call.fn = "Create"
    /\ dfs.call.diskErr = "ErrVolumeExists"
    /\ dfs.call.err = "ErrVolumeExists"
    /\ Len(dfs.call.calls) = 1


\* ---------------------------------------------------------------------------
\* InitDriver in two goroutines
\* ---------------------------------------------------------------------------

\* How many initializers one behaviour invokes, how many lookups it records.
MaxInits == 3

MaxSeen == 1

\* The roots the goroutines initialize: two spellings of /r, and /r/s.
InitRoots == { <<"", "r">>, <<"", "r", "">>, <<"", "r", "s">> }

InitNames == {DRIVER_RSYNC, DRIVER_BTRFS}

\* The goroutines that are inside InitDriver.
Initing == { t \in Threads : initing.go[t].pc # "idle" }

\* The goroutine t returns err from InitDriver.
InitReturn(t, err) ==
    [initing EXCEPT !.go[t] = [NotIniting EXCEPT !.err = err]]

\* The goroutine t goes on with the statement at pc.
InitGoto(t, pc) == [initing EXCEPT !.go[t].pc = pc]

\* A goroutine calls InitDriver(name, root, args).
GoInitDriver(t, name, root) ==
    /\ ~exited
    /\ initing.go[t].pc = "idle"
    /\ Len(initing.made) + Cardinality(Initing) < MaxInits
    /\ initing' = [initing EXCEPT
                      !.go[t] = [NotIniting EXCEPT !.pc = "lookup", !.name = name,
                                                   !.root = root]]
    /\ UNCHANGED <<nfsVars, volVars, dfs, reading>>

\* InitDriver up to the test for an absolute root: the initializer is read
\* from drivers, the cleaned root looked up in driversByRoot.
GoLookup(t) ==
    LET g == initing.go[t]
        croot == Clean(g.root)
    IN  /\ ~exited
        /\ g.pc = "lookup"
        /\ initing' =
              IF g.name \notin DOMAIN drivers THEN InitReturn(t, "ErrDriverNotSupported")
              ELSE IF croot \in DOMAIN driversByRoot THEN InitReturn(t, "nil")
              ELSE IF ~IsAbs(croot) THEN InitReturn(t, "ErrPathIsNotAbs")
              ELSE [initing EXCEPT !.go[t].pc = "detect", !.go[t].root = croot]
        /\ UNCHANGED <<nfsVars, volVars, dfs, reading>>

\* InitDriver: DetectDriverType(root) and the comparison of its answer.
GoDetect(t) ==
    LET g   == initing.go[t]
        det == Detect(detector, DirState(disk, g.root))
    IN  /\ ~exited
        /\ g.pc = "detect"
        /\ IF det.err # "nil" /\ det.err # "ErrDriverNotInit"
           THEN initing' = InitReturn(t, det.err) /\ UNCHANGED exited
           ELSE IF det.t # g.name
                THEN exited' = TRUE /\ initing' = InitReturn(t, "fatal")
                ELSE initing' = InitGoto(t, "init") /\ UNCHANGED exited
        /\ UNCHANGED <<nfsVars, drivers, driversByRoot, disk, detector, vlast, dfs, reading>>

\* InitDriver: driver, err := init(root, args).  Every driver built is
\* another instance.
GoConstruct(t, ctorOk) ==
    LET g    == initing.go[t]
        inst == Len(initing.made) + 1
    IN  /\ ~exited
        /\ g.pc = "init"
        /\ initing' =
              [ (IF ctorOk
                 THEN [initing EXCEPT
                          !.go[t].pc = "bind",
                          !.go[t].driver = [type |-> g.name, root |-> g.root,
                                            by |-> drivers[g.name], inst |-> inst]]
                 ELSE InitReturn(t, "ErrInit"))
                EXCEPT !.made = Append(initing.made,
                                       [by |-> t, root |-> g.root, ok |-> ctorOk]) ]
        /\ UNCHANGED <<nfsVars, volVars, dfs, reading>>

\* InitDriver: driversByRoot[root] = driver begins.
GoBind(t) ==
    /\ ~exited
    /\ initing.go[t].pc = "bind"
    /\ initing' = InitGoto(t, "binding")
    /\ UNCHANGED <<nfsVars, volVars, dfs, reading>>

\* InitDriver: the map holds the driver, nil is returned.
GoBound(t) ==
    LET g == initing.go[t] IN
    /\ ~exited
    /\ g.pc = "binding"
    /\ driversByRoot' = (g.root :> g.driver) @@ driversByRoot
    /\ initing' = InitReturn(t, "nil")
    /\ UNCHANGED <<nfsVars, drivers, disk, detector, exited, vlast, dfs, reading>>

\* The goroutine t reads or writes driversByRoot while another goroutine
\* writes it: the runtime may end the process ("concurrent map writes",
\* "concurrent map read and map write").
MapFault(t) ==
    /\ ~exited
    /\ initing.go[t].pc \in {"lookup", "bind"}
    /\ \E u \in Threads \ {t} : initing.go[u].pc = "binding"
    /\ exited' = TRUE
    /\ initing' = [InitReturn(t, "fatal") EXCEPT !.fault = TRUE]
    /\ UNCHANGED <<nfsVars, drivers, driversByRoot, disk, detector, vlast, dfs, reading>>

\* GetDriver(root) called from outside the two goroutines; what it returned
\* is recorded.
ObserveDriver(root) ==
    LET ok == Clean(root) \in DOMAIN driversByRoot
        d  == IF ok THEN driversByRoot[Clean(root)] ELSE NoDriver
    IN  /\ ~exited
        /\ Len(initing.seen) < MaxSeen
        /\ vlast' = [NoCall EXCEPT !.op = "GetDriver", !.path = root,
                        !.err = IF ok THEN "nil" ELSE "ErrDriverNotInit"]
        /\ initing' = [initing EXCEPT
                          !.seen = Append(initing.seen,
                                          [root |-> Clean(root), driver |-> d])]
        /\ UNCHANGED <<nfsVars, drivers, driversByRoot, disk, detector, exited, dfs,
                       reading>>

\* Two roots that hold volumes: /r of the rsync driver, /r/s of the btrfs
\* driver.
InitDisk == (<<"", "r">> :> RsyncDir) @@ (<<"", "r", "s">> :> BtrfsDir)

InitGo ==
    /\ NoCallInProgress
    /\ ServerStart(FreshWorld)
    /\ \E which \in {"detect.go", "volume.go"} : RegistryStart(InitDisk, which)

\* The drivers register before the goroutines run; then two goroutines call
\* InitDriver and run it statement by statement, in any interleaving.
NextGo ==
    \/ \E name \in InitNames : Initing = {} /\ Register(name, "NewA")
    \/ \E t \in Threads :
          \/ \E name \in InitNames, root \in InitRoots : GoInitDriver(t, name, root)
          \/ GoLookup(t)
          \/ GoDetect(t)
          \/ \E ctorOk \in BOOLEAN : GoConstruct(t, ctorOk)
          \/ GoBind(t)
          \/ GoBound(t)
          \/ MapFault(t)
    \/ \E root \in InitRoots : ObserveDriver(root)

SpecGo == InitGo /\ [][NextGo]_vars

\* The initializer invocations that built a driver for the root.
BuiltFor(root) ==
    { i \in DOMAIN initing.made : initing.made[i].root = root /\ initing.made[i].ok }

\* C38: whatever the interleaving of two InitDriver calls, one driver at most
\* is built for a root, the runtime meets no concurrent access to
\* driversByRoot, and once no InitDriver is running every driver a GetDriver
\* returned is the driver that is bound to its root.
C38_InitDriverSerialized ==
    /\ \A root \in { Clean(r) : r \in InitRoots } : Cardinality(BuiltFor(root)) <= 1
    /\ ~initing.fault
    /\ Initing = {} =>
          \A k \in DOMAIN initing.seen :
             LET s == initing.seen[k] IN
             s.driver # NoDriver => driversByRoot[s.root] = s.driver

\* Two goroutines built a driver each for /r.
BuiltTwice ==
    /\ Cardinality(BuiltFor(<<"", "r">>)) = 2
    /\ initing.made[1].by # initing.made[2].by

\* Both InitDriver calls returned nil, and a GetDriver made meanwhile
\* returned a driver that is not the one bound now.
ObservedDriverReplaced ==
    /\ Initing = {}
    /\ \A t \in Threads : initing.go[t].err = "nil"
    /\ \E k \in DOMAIN initing.seen :
          /\ initing.seen[k].driver # NoDriver
          /\ driversByRoot[initing.seen[k].root] # initing.seen[k].driver

\* The process was ended because two goroutines wrote driversByRoot at once.
ConcurrentMapWrite ==
    /\ initing.fault
    /\ exited


\* ---------------------------------------------------------------------------
\* Clients while SetClients runs
\* ---------------------------------------------------------------------------

\* The goroutine that sets the clients and the one that reads them.
Setter == "g1"

Getter == "g2"

\* SetClients: c.Lock().  The set before the call and the set of its
\* arguments are noted, also for a Clients call that is running.
SetLock(addrs) ==
    /\ ~exited
    /\ reading.set.pc = "idle"
    /\ Lock(Setter)
    /\ mu' = Setter
    /\ reading' = [reading EXCEPT
                      !.set = [pc |-> "make", todo |-> addrs, old |-> clients,
                               new |-> Range(addrs)],
                      !.get.whole = IF reading.get.pc = "idle" THEN @
                                    ELSE @ \cup {Range(addrs)}]
    /\ UNCHANGED <<volumes, clients, exported, network, cycle, pos, denyFile, allowFile,
                   exportsFile, mounts, entries, daemon, faults, trace, mountCmds, last,
                   pre, again, bindCall, newCall, volVars, dfs, initing>>

\* SetClients: c.clients = make(map[string]struct{})
SetMake ==
    /\ ~exited
    /\ reading.set.pc = "make"
    /\ clients' = {}
    /\ reading' = [reading EXCEPT !.set.pc = "add"]
    /\ UNCHANGED <<volumes, exported, network, mu, cycle, pos, denyFile, allowFile,
                   exportsFile, mounts, entries, daemon, faults, trace, mountCmds, last,
                   pre, again, bindCall, newCall, volVars, dfs, initing>>

\* SetClients: one turn of the loop, c.clients[client] = struct{}{}
SetAdd ==
    /\ ~exited
    /\ reading.set.pc = "add"
    /\ reading.set.todo # <<>>
    /\ clients' = clients \cup {Head(reading.set.todo)}
    /\ reading' = [reading EXCEPT !.set.todo = Tail(@)]
    /\ UNCHANGED <<volumes, exported, network, mu, cycle, pos, denyFile, allowFile,
                   exportsFile, mounts, entries, daemon, faults, trace, mountCmds, last,
                   pre, again, bindCall, newCall, volVars, dfs, initing>>

\* SetClients: the loop is over, the deferred c.Unlock() runs.
SetUnlock ==
    /\ ~exited
    /\ reading.set.pc = "add"
    /\ reading.set.todo = <<>>
    /\ mu' = NoThread
    /\ reading' = [reading EXCEPT !.set.pc = "idle"]
    /\ ObserveCall("SetClients")
    /\ UNCHANGED <<volumes, clients, exported, network, cycle, pos, denyFile, allowFile,
                   exportsFile, mounts, entries, daemon, faults, bindCall, newCall,
                   volVars, dfs, initing>>

\* Clients: clients := make([]string, len(c.clients)), without the lock.
\* The whole sets the call may answer with are those of the SetClients that
\* is running, or the set there is.
GetLen ==
    /\ ~exited
    /\ reading.get.pc = "idle"
    /\ reading' = [reading EXCEPT
                      !.get = [pc |-> "range", n |-> Cardinality(clients),
                               whole |-> IF reading.set.pc = "idle" THEN {clients}
                                         ELSE {reading.set.old, reading.set.new}]]
    /\ UNCHANGED <<nfsVars, volVars, dfs, initing>>

\* The slice Clients returns when it was made for n strings and the loop
\* meets the keys in the order ord: every key is stored at index 0; a store
\* into a slice of length 0 panics.
ClientsSlice(n, ord) ==
    IF ord # <<>> /\ n = 0 THEN [err |-> "panic", result |-> <<>>]
    ELSE [err |-> "nil",
          result |-> [k \in 1..n |-> IF k = 1 /\ ord # <<>> THEN ord[Len(ord)] ELSE ""]]

\* Clients: the loop over c.clients as it is now, and the return.  While
\* SetClients fills the map the runtime may end the process ("concurrent map
\* iteration and map write").
GetRange ==
    /\ ~exited
    /\ reading.get.pc = "range"
    /\ \E ord \in Orders(clients), fault \in {FALSE, reading.set.pc = "add"} :
          LET r == IF fault THEN [err |-> "fatal", result |-> <<>>]
                   ELSE ClientsSlice(reading.get.n, ord)
          IN  /\ last' = [op |-> "Clients", err |-> r.err, result |-> r.result]
              /\ exited' = (r.err # "nil")
    /\ again' = FALSE
    /\ reading' = [reading EXCEPT !.get.pc = "idle"]
    /\ UNCHANGED <<volumes, clients, exported, network, mu, cycle, pos, denyFile,
                   allowFile, exportsFile, mounts, entries, daemon, faults, trace,
                   mountCmds, pre, bindCall, newCall, drivers, driversByRoot, disk,
                   detector, vlast, dfs, initing>>

InitSnap ==
    /\ NoCallInProgress
    /\ ServerStart(FreshWorld)
    /\ RegistryStart(FreshDisk, "detect.go")

\* One goroutine sets the clients again and again, another reads them.
NextSnap ==
    \/ \E addrs \in ClientLists : SetLock(addrs)
    \/ SetMake
    \/ SetAdd
    \/ SetUnlock
    \/ GetLen
    \/ GetRange

SpecSnap == InitSnap /\ [][NextSnap]_vars

\* C39: a Clients call returns a whole client set: the set there was when
\* it ran, or, when a SetClients ran at the same time, the set before that
\* SetClients or the set of its arguments.
C39_ClientsReturnsWholeSet ==
    (last.op = "Clients" /\ reading.get.pc = "idle") =>
        /\ last.err = "nil"
        /\ \E cs \in reading.get.whole :
              /\ Range(last.result) = cs
              /\ Len(last.result) = Cardinality(cs)

\* Clients returned no address although the set before the SetClients and
\* the set after it hold one.
ReturnedEmptyBetweenSets ==
    /\ last.op = "Clients"
    /\ reading.get.pc = "idle"
    /\ last.err = "nil"
    /\ last.result = <<>>
    /\ {} \notin reading.get.whole

\* Clients stored an address into a slice it had made for none.
ClientsPanicked ==
    /\ last.op = "Clients"
    /\ last.err = "panic"
    /\ exited


\* ---------------------------------------------------------------------------
\* Shutting the drivers down
\* ---------------------------------------------------------------------------

InitShut ==
    /\ NoCallInProgress
    /\ ServerStart(FreshWorld)
    /\ \E which \in {"detect.go", "volume.go"} : RegistryStart(InitDisk, which)

\* Drivers are registered, bound to the roots of InitDisk, looked up and
\* shut down.
NextShut ==
    \/ \E name \in InitNames : Register(name, "NewA")
    \/ \E name \in InitNames, root \in InitRoots, ctorOk \in BOOLEAN :
          DoInitDriver(name, root, ctorOk)
    \/ \E root \in InitRoots : GetDriver(root)
    \/ \E ord \in Orders(DOMAIN driversByRoot), failing \in SUBSET DOMAIN driversByRoot :
          DoShutdownAll(ord, failing)

SpecShut == InitShut /\ [][NextShut]_vars

\* C40: ShutdownAll calls Cleanup once on the driver of every bound root and
\* on nothing else, whichever Cleanup fails; it returns ErrBadDriverShutdown
\* when a Cleanup failed and nil when none did; the bindings stay as they
\* are.
C40_ShutdownAllCleansEveryDriver ==
    [][ vlast'.op = "ShutdownAll" =>
          LET calls == vlast'.calls IN
          /\ driversByRoot' = driversByRoot
          /\ drivers' = drivers
          /\ Len(calls) = Cardinality(DOMAIN driversByRoot)
          /\ { calls[i].on : i \in DOMAIN calls } = DOMAIN driversByRoot
          /\ \A i \in DOMAIN calls : calls[i].fn = "Cleanup"
          /\ (vlast'.err = "ErrBadDriverShutdown") <=>
                 (\E i \in DOMAIN calls : calls[i].err # "nil")
          /\ vlast'.err \in {"nil", "ErrBadDriverShutdown"} ]_vars

\* Two drivers are bound; the Cleanup of the first one ShutdownAll met
\* failed, the second one was cleaned up all the same, and both are still
\* bound.
C40_Witness ==
    /\ vlast.op = "ShutdownAll"
    /\ vlast.err = "ErrBadDriverShutdown"
    /\ Len(vlast.calls) = 2
    /\ vlast.calls[1].err = "err"
    /\ vlast.calls[2].err = "nil"
    /\ Cardinality(DOMAIN driversByRoot) = 2

\* ShutdownAll returned nil after it cleaned up two drivers.
ShutdownAllReturnedNil ==
    /\ vlast.op = "ShutdownAll"
    /\ vlast.err = "nil"
    /\ Len(vlast.calls) = 2

====
